---- MODULE Spec2Model ----
(***************************************************************************)
(* The agent control loop of src/core/agent_graph.py: a LangGraph          *)
(* StateGraph with the nodes "agent" (call_model_node) and "action"        *)
(* (ToolNode over available_tools_list), the conditional edge              *)
(* should_continue_edge, and the entry point get_agent_graph_response.     *)
(*                                                                         *)
(* Loop states of the specification and the places of the graph:           *)
(*   AWAITING_MODEL   the "agent" node is scheduled / awaiting ainvoke     *)
(*   MODEL_RESPONDED  the "agent" node has returned, its message has been  *)
(*                    merged by add_messages, should_continue_edge is next *)
(*   EXECUTING_TOOLS  the "action" node (ToolNode) is running              *)
(*   DONE             END was reached, ainvoke returned the final state    *)
(*   FAILED           an exception left app.ainvoke                        *)
(***************************************************************************)
EXTENDS Integers, Sequences, FiniteSets, TLC

VARIABLES
    pc,          \* loop state of the run ("IDLE" before get_agent_graph_response)
    history,     \* the chat_history the caller passed
    messages,    \* AgentState["messages"]
    nextId,      \* source of fresh identifiers (uuid4)
    steps,       \* super-steps the graph has executed in this run
    pending,     \* indices of the current batch whose executor has not returned
    outputs,     \* index of the current batch -> ToolMessage built for it
    finished,    \* indices of the latest batch in the order the calls completed,
                 \* kept until the model is called again
    execCount,   \* tool name -> number of executor invocations in this run
    execLog,     \* the executor invocations that have ended
    contexts,    \* the message sequences passed to llm_with_tools.ainvoke, in order
    responses,   \* the messages llm_with_tools.ainvoke returned, in order
    trace,       \* the loop states the run has been in, in order
    returned,    \* the message get_agent_graph_response returned (NoMessage: none)
    failure,     \* the exception that left get_agent_graph_response ("" : none)
    runs,        \* conversation -> state of its run, for runs that interleave
    page,        \* pages/3_Chat_con_Agente_Graph.py: what the handler of the
                 \* chat input has shown and has appended to the session
    chat,        \* ChatPage._on_send_message: what it has shown, stored in
                 \* the database and notified
    build,       \* how sum() adds floats in the interpreter the service runs on
    info,        \* yf.Ticker(ticker).info: the raw metrics of the stock
    result,      \* what analyze_stock_sync returned (NoResult: not called yet)
    kb,          \* the Qdrant collection: point id -> payload
    kbLog,       \* the calls of the knowledge-base tools, in order
    batch,       \* the tool calls ToolNode has still to hand to their tools
    handled,     \* the tool calls handed to their tools, with what came of it
    services,    \* what the checks of the database, Ollama and Qdrant find
    probes,      \* the answers of the health endpoints, in order
    request,     \* the construction of an application error that is asked for
    built,       \* the error object that came of it, or the TypeError
    stMessages,  \* the history a caller hands to format_st_history_to_langchain
    formatted,   \* what format_st_history_to_langchain returned for it
    convMessages,\* the messages table, for the one conversation the sends are on
    sends,       \* sender -> how far its _on_send_message has got
    account,     \* the row of the user in the users table (failed_login_attempts, locked_until)
    now,         \* datetime.now, in minutes
    logins,      \* request -> how far its authenticate_user has got
    issued,      \* the tokens created so far, a token's jti being its place
    blacklist,   \* the rows of the token_blacklist table
    clock,       \* the time of the token checks, in minutes
    refreshes,   \* client -> how far its latest /auth/refresh has got
    granted,     \* the refreshes that returned tokens: the jti of the old and of a new token
    auth,        \* the last answer of get_current_user since the last logout
    loggedOut,   \* the jti of every token whose logout has blacklisted it
    users,       \* user id -> the role of the account, or that it does not exist
    adminRequests, \* client -> how far its user-management request has got
    conversations, \* conversation id -> its row, or that it does not exist
    chatPage      \* the chat page that is open: who is logged in, the page's fields

\* the state of the single run
agentVars == <<pc, history, messages, nextId, steps, pending, outputs, finished,
               execCount, execLog, contexts, responses, trace, returned, failure>>

\* the state of the interleaved runs
concVars == <<runs>>

\* the state of the two callers of the agent
pageVars == <<page, chat>>

\* the state of the stock scoring service
scoreVars == <<build, info, result>>

\* the state of the knowledge base
kbVars == <<kb, kbLog>>

\* the state of the services behind the tools
serviceVars == <<scoreVars, kbVars>>

\* the state of the validation of tool inputs
schemaVars == <<batch, handled>>

\* the state of the health endpoints
healthVars == <<services, probes>>

\* the state of the construction of application errors
errorVars == <<request, built>>

\* the state of the conversion of a history
formatVars == <<stMessages, formatted>>

\* the state of the sends of the chat page on one conversation
sendVars == <<convMessages, sends>>

\* the state of the logins of one user
loginVars == <<account, now, logins>>

\* the state of the tokens and of their blacklist
tokenVars == <<issued, blacklist, clock, refreshes, granted, auth, loggedOut>>

\* the state of the user management
adminVars == <<users, adminRequests>>

\* the state of the conversations and of the chat page
ownerVars == <<conversations, chatPage>>

\* the state of the parts of the application around the agent
apiVars == <<schemaVars, healthVars, errorVars, formatVars, sendVars, loginVars, tokenVars, adminVars, ownerVars>>

\* everything but the state of the single run
notAgentVars == <<concVars, pageVars, serviceVars, apiVars>>

\* everything but the state of the interleaved runs
notConcVars == <<agentVars, pageVars, serviceVars, apiVars>>

\* the state of the agent, of its callers and of the services
coreVars == <<agentVars, concVars, pageVars, serviceVars>>

vars == <<coreVars, apiVars>>

\* everything but the state of the validation of tool inputs
notSchemaVars == <<coreVars, healthVars, errorVars, formatVars, sendVars, loginVars, tokenVars, adminVars, ownerVars>>

\* everything but the state of the health endpoints
notHealthVars == <<coreVars, schemaVars, errorVars, formatVars, sendVars, loginVars, tokenVars, adminVars, ownerVars>>

\* everything but the state of the construction of application errors
notErrorVars == <<coreVars, schemaVars, healthVars, formatVars, sendVars, loginVars, tokenVars, adminVars, ownerVars>>

\* everything but the state of the conversion of a history
notFormatVars == <<coreVars, schemaVars, healthVars, errorVars, sendVars, loginVars, tokenVars, adminVars, ownerVars>>

\* everything but the state of the sends of the chat page on one conversation
notSendVars == <<coreVars, schemaVars, healthVars, errorVars, formatVars, loginVars, tokenVars, adminVars, ownerVars>>

\* everything but the state of the logins of one user
notLoginVars == <<coreVars, schemaVars, healthVars, errorVars, formatVars, sendVars, tokenVars, adminVars, ownerVars>>

\* everything but the state of the tokens and of their blacklist
notTokenVars == <<coreVars, schemaVars, healthVars, errorVars, formatVars, sendVars, loginVars, adminVars, ownerVars>>

\* everything but the state of the user management
notAdminVars == <<coreVars, schemaVars, healthVars, errorVars, formatVars, sendVars, loginVars, tokenVars, ownerVars>>

\* everything but the state of the conversations and of the chat page
notOwnerVars == <<coreVars, schemaVars, healthVars, errorVars, formatVars, sendVars, loginVars, tokenVars, adminVars>>

----------------------------------------------------------------------------
(* Bounds of the model *)

\* longest caller history
MaxHistory == 1
\* most tool calls the model asks for in one of the interleaved runs
MaxRunCalls == 1
\* most tool calls the model asks for in one run, in any split over its
\* responses; only the run that asks for one web search in every response
\* goes on beyond it
MaxToolCalls == 3

(* Program constants *)

\* langgraph's default recursion_limit: app.ainvoke is called without a config
RecursionLimit == 25
\* "Maximum 2 calls per request" (web_search_tool docstring, SYSTEM_PROMPT)
WebSearchMaxCalls == 2

----------------------------------------------------------------------------
(* Messages *)

SYSTEM_PROMPT == "SYSTEM_PROMPT"

NoMessage ==
    [id |-> 0, role |-> "none", content |-> "", tool_calls |-> <<>>,
     tool_call_id |-> 0, status |-> ""]

SystemMessage(content) ==
    [id |-> 0, role |-> "system", content |-> content, tool_calls |-> <<>>,
     tool_call_id |-> 0, status |-> ""]

HumanMessage(content) ==
    [id |-> 0, role |-> "human", content |-> content, tool_calls |-> <<>>,
     tool_call_id |-> 0, status |-> ""]

AIMessage(content, tool_calls) ==
    [id |-> 0, role |-> "ai", content |-> content, tool_calls |-> tool_calls,
     tool_call_id |-> 0, status |-> ""]

ToolMessage(content, tool_call_id, status) ==
    [id |-> 0, role |-> "tool", content |-> content, tool_calls |-> <<>>,
     tool_call_id |-> tool_call_id, status |-> status]

----------------------------------------------------------------------------
(* AgentState: messages: Annotated[Sequence[BaseMessage], add_messages] *)

RECURSIVE AssignIds(_, _)
\* add_messages gives every message that has no id a fresh uuid4
AssignIds(right, n) ==
    IF right = <<>> THEN <<>>
    ELSE IF Head(right).id = 0
         THEN <<[Head(right) EXCEPT !.id = n]>> \o AssignIds(Tail(right), n + 1)
         ELSE <<Head(right)>> \o AssignIds(Tail(right), n)

RECURSIVE CountNoId(_)
CountNoId(right) ==
    IF right = <<>> THEN 0
    ELSE (IF Head(right).id = 0 THEN 1 ELSE 0) + CountNoId(Tail(right))

RECURSIVE Merge(_, _)
\* add_messages: a message whose id is already in the list replaces that
\* message in place, any other message is appended
Merge(left, right) ==
    IF right = <<>> THEN left
    ELSE LET m == Head(right)
             hit == {i \in 1..Len(left) : left[i].id = m.id}
         IN  IF hit # {}
             THEN Merge([left EXCEPT ![CHOOSE i \in hit : TRUE] = m], Tail(right))
             ELSE Merge(Append(left, m), Tail(right))

add_messages(left, right, n) == Merge(left, AssignIds(right, n))

----------------------------------------------------------------------------
(* format_st_history_to_langchain *)

\* the roles of the entries a caller passes; "system" stands for every role
\* other than user and assistant
HistoryRoles == {"user", "assistant", "system"}

\* the "tool_calls" an assistant entry of the history may carry: none (what
\* both pages store), or a call of an earlier run, whose id no call of this
\* run has
HistoryToolCalls == {<<>>, <<[name |-> "web_search_tool", args |-> "valid", id |-> -1]>>}

\* the entries a caller passes: dicts with "role", "content" and, for an
\* assistant entry, "tool_calls"
HistoryEntries ==
    [role : HistoryRoles \ {"assistant"}, content : {"h"}, tool_calls : {<<>>}]
    \cup [role : {"assistant"}, content : {"h"}, tool_calls : HistoryToolCalls]

RECURSIVE SeqsUpTo(_, _)
SeqsUpTo(S, n) ==
    IF n = 0 THEN {<<>>}
    ELSE LET shorter == SeqsUpTo(S, n - 1)
         IN  shorter \cup {Append(s, x) : s \in shorter, x \in S}

Histories == SeqsUpTo(HistoryEntries, MaxHistory)

RECURSIVE format_newest_first(_)
\* mutant of format_st_history_to_langchain: each message is put before the
\* messages of the earlier entries
format_newest_first(st_messages) ==
    IF st_messages = <<>> THEN <<>>
    ELSE LET msg == Head(st_messages)
             rest == format_newest_first(Tail(st_messages))
         IN  IF msg.role = "user"
             THEN rest \o <<HumanMessage(msg.content)>>
             ELSE IF msg.role = "assistant"
                  THEN rest \o <<AIMessage(msg.content, msg.tool_calls)>>
                  ELSE rest

RECURSIVE format_keeping_other_roles(_)
\* mutant of format_st_history_to_langchain: an entry of another role is
\* passed on as a system message
format_keeping_other_roles(st_messages) ==
    IF st_messages = <<>> THEN <<>>
    ELSE LET msg == Head(st_messages)
             rest == format_keeping_other_roles(Tail(st_messages))
         IN  IF msg.role = "user"
             THEN <<HumanMessage(msg.content)>> \o rest
             ELSE IF msg.role = "assistant"
                  THEN <<AIMessage(msg.content, msg.tool_calls)>> \o rest
                  ELSE <<SystemMessage(msg.content)>> \o rest

RECURSIVE format_st_history_to_langchain(_)
format_st_history_to_langchain(st_messages) ==
    IF st_messages = <<>> THEN <<>>
    ELSE LET msg == Head(st_messages)
             rest == format_st_history_to_langchain(Tail(st_messages))
         IN  IF msg.role = "user"
             THEN <<HumanMessage(msg.content)>> \o rest
             ELSE IF msg.role = "assistant"
                  THEN <<AIMessage(msg.content, msg.tool_calls)>> \o rest
                  ELSE rest

----------------------------------------------------------------------------
(* Tool catalog and executors (src/core/agent_tools.py) *)

available_tools_list ==
    {"web_search_tool", "read_from_kb_tool", "write_to_kb_tool",
     "stock_scoring_tool", "stock_price_tool", "compare_stocks_tool",
     "dividend_analysis_tool", "company_profile_tool", "stock_news_tool",
     "technical_indicators_tool", "earnings_calendar_tool"}

\* the names the modelled chat model asks for: registered tools and one name
\* that is in no catalog
RequestNames == {"web_search_tool", "stock_scoring_tool", "unknown_tool"}

\* the calls the modelled chat model asks for; args says whether the
\* arguments validate against the args_schema of the tool
\* (src/core/schemas.py) or not (a required field is missing or has the wrong
\* type)
Requests ==
    [name : RequestNames, args : {"valid"}]
    \cup {[name |-> "web_search_tool", args |-> "invalid"]}

\* what the body of an executor does: it completes, or something in it raises
ExecutorOutcomes == {"ok", "error"}

\* the string a tool returns when its body completes
SuccessPayload(name) ==
    CASE name = "web_search_tool"    -> "search snippets"
      [] name = "read_from_kb_tool"  -> "kb context"
      [] name = "write_to_kb_tool"   -> "Information saved to KB (ID: point_id)."
      [] name = "stock_scoring_tool" -> "json: metrics, score, decision"
      [] OTHER                       -> "json: result"

\* the string the except branch of a tool returns
FailurePayload(name) ==
    CASE name = "web_search_tool"    -> "Search error: e"
      [] name = "read_from_kb_tool"  -> "KB read error: e"
      [] name = "write_to_kb_tool"   -> "KB write error: e"
      [] name = "stock_scoring_tool" -> "json: ticker, error: Analysis error: e"
      [] OTHER                       -> "json: ticker, error: e"

\* mutant of Executor: no except branch, the exception leaves the tool
ExecutorUncaught(name, outcome) ==
    IF outcome = "ok"
    THEN [kind |-> "returned", content |-> SuccessPayload(name)]
    ELSE [kind |-> "raised", content |-> ""]

\* one invocation of a tool: the body of the try block completes (for
\* web_search_tool also when google_search caught an error of the search API
\* and returned its own text), or it raises and the except branch returns the
\* error text
Executor(name, outcome) ==
    IF outcome = "ok"
    THEN [kind |-> "returned", content |-> SuccessPayload(name)]
    ELSE [kind |-> "returned", content |-> FailurePayload(name)]

----------------------------------------------------------------------------
(* ToolNode(available_tools_list) *)

INVALID_TOOL_NAME_ERROR == "Error: name is not a valid tool, try one of [...]"
TOOL_CALL_ERROR == "Error: repr(e) Please fix your mistakes."

\* mutant of IsRegistered: the name is not looked up
IsRegisteredAny(name) == TRUE

\* ToolNode looks the requested name up in tools_by_name
IsRegistered(name) == name \in available_tools_list

\* mutant of ValidatesInput: the tool has no args_schema
ValidatesInputAny(call) == TRUE

\* @tool(args_schema=...): the arguments are validated against the schema
\* before the coroutine of the tool is called
ValidatesInput(call) == call.args = "valid"

\* the calls of a batch for which the executor (the coroutine of the tool)
\* is invoked
Dispatched(calls) ==
    {i \in 1..Len(calls) :
        IsRegistered(calls[i].name) /\ ValidatesInput(calls[i])}

RECURSIVE RejectedFrom(_, _)
RejectedFrom(calls, i) ==
    IF i > Len(calls) THEN <<>>
    ELSE (IF i \in Dispatched(calls) THEN <<>> ELSE <<i>>)
         \o RejectedFrom(calls, i + 1)

\* the calls of a batch that ToolNode answers itself, in the order of the calls
Rejected(calls) == RejectedFrom(calls, 1)

\* what ToolNode has for each call right after dispatch: the error message for
\* a name that is not registered or for arguments that failed validation,
\* nothing yet for a running executor
InitialOutputs(calls) ==
    [i \in 1..Len(calls) |->
        IF i \in Dispatched(calls)
        THEN NoMessage
        ELSE IF IsRegistered(calls[i].name)
             THEN ToolMessage(TOOL_CALL_ERROR, calls[i].id, "error")
             ELSE ToolMessage(INVALID_TOOL_NAME_ERROR, calls[i].id, "error")]

\* the ToolMessage of a call whose executor has finished; an exception that
\* leaves a tool is turned into an error message (handle_tool_errors)
ToolOutput(call, res) ==
    IF res.kind = "returned"
    THEN ToolMessage(res.content, call.id, "success")
    ELSE ToolMessage(TOOL_CALL_ERROR, call.id, "error")

\* mutant of GatheredOutputs: the outputs in the order the calls completed
GatheredByCompletion(outs, done) == [k \in 1..Len(done) |-> outs[done[k]]]

\* asyncio.gather returns the outputs in the order of the calls
GatheredOutputs(outs, done) == outs

RECURSIVE CountName(_, _)
CountName(calls, name) ==
    IF calls = <<>> THEN 0
    ELSE (IF Head(calls).name = name /\ ValidatesInput(Head(calls)) THEN 1 ELSE 0)
         + CountName(Tail(calls), name)

\* invocation counts after the executors of a batch have been started
CountDispatch(count, calls) ==
    [t \in available_tools_list |-> count[t] + CountName(calls, t)]

----------------------------------------------------------------------------
(* The chat model (llm_with_tools), an external service *)

RECURSIVE NonEmptySeqsUpTo(_, _)
NonEmptySeqsUpTo(S, n) ==
    IF n <= 0 THEN {}
    ELSE {<<x>> : x \in S}
         \cup {Append(s, x) : s \in NonEmptySeqsUpTo(S, n - 1), x \in S}

RECURSIVE Requested(_)
\* number of tool calls in a sequence of responses
Requested(resps) ==
    IF resps = <<>> THEN 0
    ELSE Len(Head(resps).tool_calls) + Requested(Tail(resps))

\* every response so far asked for exactly one web search
IsSearchLoop(resps) ==
    \A k \in 1..Len(resps) :
        /\ Len(resps[k].tool_calls) = 1
        /\ resps[k].tool_calls[1].name = "web_search_tool"
        /\ resps[k].tool_calls[1].args = "valid"

\* the batches (sequences of requested calls) the model may ask for after the
\* responses resps in a run that was given the history hist; the explored
\* runs are bounded in the number of history entries and requested calls
\* taken together
ToolCallChoices(resps, hist) ==
    NonEmptySeqsUpTo(Requests, MaxToolCalls - Len(hist) - Requested(resps))
    \cup (IF IsSearchLoop(resps)
          THEN {<<[name |-> "web_search_tool", args |-> "valid"]>>}
          ELSE {})

\* the executor outcomes that can follow the responses resps
OutcomeChoices(resps) ==
    IF Requested(resps) <= MaxToolCalls THEN ExecutorOutcomes ELSE {"ok"}

\* mutant of ResponseId: the response carries the id of the latest message
ResponseIdReused(n) == n - 1

\* the id langchain gives the response ("run-<uuid4>"), n the next unused id
ResponseId(n) == n

\* mutant of MakeToolCalls: every call of a response gets the same id
MakeToolCallsSameId(reqs, n) ==
    [i \in 1..Len(reqs) |->
        [name |-> reqs[i].name, args |-> reqs[i].args, id |-> n + 1]]

\* the tool calls of a response, each with the uuid4 id the client gives it
MakeToolCalls(reqs, n) ==
    [i \in 1..Len(reqs) |->
        [name |-> reqs[i].name, args |-> reqs[i].args, id |-> n + i]]

Response(content, reqs, n) ==
    [AIMessage(content, MakeToolCalls(reqs, n)) EXCEPT !.id = ResponseId(n)]

----------------------------------------------------------------------------
(* The graph *)

LastMessage(msgs) == msgs[Len(msgs)]

\* mutant of should_continue_edge: the tool_calls of the last message are not
\* looked at
should_continue_always(msgs) == "continue_to_tools"

should_continue_edge(msgs) ==
    IF LastMessage(msgs).tool_calls # <<>>
    THEN "continue_to_tools"
    ELSE "end_conversation"

\* mutant of ActionEdgeTarget: the edge leads from "action" to END
ActionEdgeToEnd == "DONE"

\* workflow.add_edge("action", "agent")
ActionEdgeTarget == "AWAITING_MODEL"

\* mutant of OutOfSteps: one super-step too late
OutOfStepsLate(n) == n > RecursionLimit

\* the graph raises GraphRecursionError instead of starting a super-step once
\* recursion_limit super-steps have run
OutOfSteps(n) == n >= RecursionLimit

\* mutant of AfterModelError: the exception is swallowed and the model is
\* called again
AfterModelErrorRetry == "AWAITING_MODEL"

\* what becomes of the run when llm_with_tools.ainvoke raises in call_model_node:
\* nothing catches the exception, it leaves app.ainvoke
AfterModelError == "FAILED"

----------------------------------------------------------------------------
(* binary64 arithmetic, as far as analyze_stock_sync uses it.               *)
(* A natural number is the sequence of its binary digits, least significant *)
(* first and without leading zeros. Every float that occurs in the weighted *)
(* total is a multiple of 2^-56 below 16, so a float is a sign and a        *)
(* magnitude counted in units of 2^-56; the result of an operation is the   *)
(* exact result rounded to 53 significant digits, ties to even.             *)

RECURSIVE Zeros(_)
Zeros(k) == IF k <= 0 THEN <<>> ELSE <<0>> \o Zeros(k - 1)

RECURSIVE Trim(_)
\* without leading zeros
Trim(b) ==
    IF b = <<>> THEN <<>>
    ELSE IF b[Len(b)] = 0 THEN Trim(SubSeq(b, 1, Len(b) - 1)) ELSE b

RECURSIVE NatBits(_)
NatBits(n) == IF n = 0 THEN <<>> ELSE <<n % 2>> \o NatBits(n \div 2)

RECURSIVE BitsNat(_)
BitsNat(b) == IF b = <<>> THEN 0 ELSE b[1] + 2 * BitsNat(Tail(b))

RECURSIVE AddCarry(_, _, _)
AddCarry(a, b, c) ==
    IF a = <<>> /\ b = <<>> THEN (IF c = 1 THEN <<1>> ELSE <<>>)
    ELSE LET x == IF a = <<>> THEN 0 ELSE a[1]
             y == IF b = <<>> THEN 0 ELSE b[1]
             t == x + y + c
         IN  <<t % 2>> \o AddCarry(IF a = <<>> THEN <<>> ELSE Tail(a),
                                   IF b = <<>> THEN <<>> ELSE Tail(b),
                                   t \div 2)

NatAdd(a, b) == AddCarry(a, b, 0)

RECURSIVE SubBorrow(_, _, _)
SubBorrow(a, b, c) ==
    IF a = <<>> THEN <<>>
    ELSE LET y == IF b = <<>> THEN 0 ELSE b[1]
             t == a[1] - y - c
         IN  <<t % 2>> \o SubBorrow(Tail(a),
                                    IF b = <<>> THEN <<>> ELSE Tail(b),
                                    IF t < 0 THEN 1 ELSE 0)

\* a - b for a >= b
NatSub(a, b) == Trim(SubBorrow(a, b, 0))

RECURSIVE NatLess(_, _)
NatLess(a, b) ==
    IF Len(a) # Len(b) THEN Len(a) < Len(b)
    ELSE IF a = <<>> THEN FALSE
    ELSE IF a[Len(a)] # b[Len(b)] THEN a[Len(a)] < b[Len(b)]
    ELSE NatLess(Trim(SubSeq(a, 1, Len(a) - 1)), Trim(SubSeq(b, 1, Len(b) - 1)))

ShiftLeft(b, k) == IF b = <<>> THEN <<>> ELSE Zeros(k) \o b

RECURSIVE NatTimes(_, _)
\* b times the small number n
NatTimes(b, n) ==
    IF n = 0 THEN <<>>
    ELSE LET twice == ShiftLeft(NatTimes(b, n \div 2), 1)
         IN  IF n % 2 = 0 THEN twice ELSE NatAdd(twice, b)

\* b \div 2^k, rounded to the nearest, ties to even
RoundShift(b, k) ==
    IF Len(b) < k THEN <<>>
    ELSE LET kept == SubSeq(b, k + 1, Len(b))
             rest == Trim(SubSeq(b, 1, k))
             half == Zeros(k - 1) \o <<1>>
             up == \/ NatLess(half, rest)
                   \/ rest = half /\ kept # <<>> /\ kept[1] = 1
         IN  IF up THEN NatAdd(kept, <<1>>) ELSE kept

\* the magnitude b rounded to a binary64, whose significand has 53 digits
Round53(b) ==
    IF Len(b) <= 53 THEN b
    ELSE LET d == Len(b) - 53
         IN  ShiftLeft(RoundShift(b, d), d)

Float(neg, mag) == [neg |-> neg /\ mag # <<>>, mag |-> mag]

\* float + float
FloatAdd(x, y) ==
    IF x.neg = y.neg THEN Float(x.neg, Round53(NatAdd(x.mag, y.mag)))
    ELSE IF NatLess(x.mag, y.mag)
         THEN Float(y.neg, Round53(NatSub(y.mag, x.mag)))
         ELSE Float(x.neg, Round53(NatSub(x.mag, y.mag)))

\* float - float
FloatSub(x, y) == FloatAdd(x, Float(~y.neg, y.mag))

\* int * float for a small int >= 0 and a float >= 0
IntTimesFloat(n, x) == Float(FALSE, Round53(NatTimes(x.mag, n)))

\* x >= y for floats >= 0
FloatGeq(x, y) == ~NatLess(x.mag, y.mag)

RECURSIVE HexBits(_)
\* the digits of a number written with hexadecimal digits, most significant first
HexBits(h) ==
    IF h = <<>> THEN <<>>
    ELSE LET d == h[Len(h)]
         IN  <<d % 2, (d \div 2) % 2, (d \div 4) % 2, d \div 8>>
             \o HexBits(SubSeq(h, 1, Len(h) - 1))

\* the float with the significand h (hexadecimal) times 2^(k - 56)
Double(h, k) == Float(FALSE, ShiftLeft(Trim(HexBits(h)), k))

\* the float of a small int >= 0
IntFloat(n) == Float(FALSE, ShiftLeft(NatBits(n), 56))

\* round(x, 2) for a float >= 0, in hundredths: the decimal with two places
\* nearest to the exact value, ties to even
RoundHundredths(x) == BitsNat(RoundShift(NatTimes(x.mag, 100), 56))

----------------------------------------------------------------------------
(* src/services/financial.py *)

\* A raw metric is None or a number. The numbers are counted in
\* thousandths, and a metric is the sequence that holds its number, or the
\* empty sequence for None.
None == <<>>

Number(n) == <<n>>

\* mutant of score_pe: None is not looked for and ends in the last bracket
score_pe_without_none(value) ==
    IF value # None /\ value[1] < 15000 THEN 10
    ELSE IF value # None /\ value[1] < 30000 THEN 7
    ELSE IF value # None /\ value[1] < 45000 THEN 5
    ELSE 2

score_pe(value) ==
    IF value = None THEN 0
    ELSE IF value[1] < 15000 THEN 10
    ELSE IF value[1] < 30000 THEN 7
    ELSE IF value[1] < 45000 THEN 5
    ELSE 2

score_roe(value) ==
    IF value = None THEN 0
    ELSE IF value[1] > 20000 THEN 10
    ELSE IF value[1] >= 10000 THEN 7
    ELSE 3

score_debt_equity(value) ==
    IF value = None THEN 0
    ELSE IF value[1] < 1000 THEN 10
    ELSE IF value[1] <= 2000 THEN 6
    ELSE 2

score_beta(value) ==
    IF value = None THEN 0
    ELSE IF 800 <= value[1] /\ value[1] <= 1200 THEN 10
    ELSE IF 1200 < value[1] /\ value[1] <= 1500 THEN 7
    ELSE IF 1500 < value[1] /\ value[1] <= 2000 THEN 5
    ELSE 2

score_dividend_yield(value) ==
    IF value = None THEN 0
    ELSE IF value[1] > 30 THEN 10
    ELSE IF value[1] >= 10 THEN 7
    ELSE 3

score_revenue_growth(value) ==
    IF value = None THEN 0
    ELSE IF value[1] > 100 THEN 10
    ELSE IF value[1] >= 0 THEN 6
    ELSE 2

score_ev_ebitda(value) ==
    IF value = None THEN 0
    ELSE IF value[1] < 8000 THEN 10
    ELSE IF value[1] <= 14000 THEN 6
    ELSE 2

\* the keys of scores and WEIGHTS, in the order of the dict
Keys == <<"pe", "roe", "de", "beta", "dividend", "growth", "evebitda">>

\* the floats of the literals 0.15, 0.20 and 0.10
Float015 == Double(<<1, 3, 3, 3, 3, 3, 3, 3, 3, 3, 3, 3, 3, 3>>, 1)
Float020 == Double(<<1, 9, 9, 9, 9, 9, 9, 9, 9, 9, 9, 9, 9, 10>>, 1)
Float010 == Double(<<1, 9, 9, 9, 9, 9, 9, 9, 9, 9, 9, 9, 9, 10>>, 0)

\* mutant of WEIGHTS: roe weighs 0.20 more
WEIGHTS_heavy ==
    [pe |-> Float015, roe |-> FloatAdd(Float020, Float020), de |-> Float015,
     beta |-> Float010, dividend |-> Float010, growth |-> Float015,
     evebitda |-> Float015]

WEIGHTS ==
    [pe |-> Float015, roe |-> Float020, de |-> Float015, beta |-> Float010,
     dividend |-> Float010, growth |-> Float015, evebitda |-> Float015]

\* the weights in hundredths, as they are written
WeightHundredths ==
    [pe |-> 15, roe |-> 20, de |-> 15, beta |-> 10, dividend |-> 10,
     growth |-> 15, evebitda |-> 15]

\* how the built-in sum adds floats: one after the other (CPython up to
\* 3.11), or with Neumaier's compensation (CPython 3.12 and later)
Builds == {"sequential", "compensated"}

RECURSIVE SumSequential(_, _)
SumSequential(acc, xs) ==
    IF xs = <<>> THEN acc ELSE SumSequential(FloatAdd(acc, Head(xs)), Tail(xs))

RECURSIVE SumCompensated(_, _, _)
SumCompensated(f, c, xs) ==
    IF xs = <<>> THEN (IF c.mag # <<>> THEN FloatAdd(f, c) ELSE f)
    ELSE LET x == Head(xs)
             t == FloatAdd(f, x)
             e == IF ~NatLess(f.mag, x.mag)
                  THEN FloatAdd(FloatSub(f, t), x)
                  ELSE FloatAdd(FloatSub(x, t), f)
         IN  SumCompensated(t, FloatAdd(c, e), Tail(xs))

\* sum(...) of floats, starting from the int 0
FloatSum(xs, b) ==
    IF b = "sequential" THEN SumSequential(IntFloat(0), xs)
    ELSE SumCompensated(IntFloat(0), IntFloat(0), xs)

\* the raw metrics the model draws: missing, the value of the round-trip
\* example, and one value of a lower bracket (thousandths; returnOnEquity
\* is a fraction and is scored times 100)
Infos ==
    [trailingPE : {None, Number(12000), Number(35000)},
     returnOnEquity : {None, Number(25000), Number(150)},
     debtToEquity : {None, Number(500), Number(1500)},
     beta : {None, Number(1000), Number(1400)},
     dividendYield : {None, Number(40), Number(5)},
     revenueGrowth : {None, Number(150), Number(50)},
     enterpriseToEbitda : {None, Number(7000), Number(20000)}]

NoInfo == [trailingPE |-> None, returnOnEquity |-> None, debtToEquity |-> None,
           beta |-> None, dividendYield |-> None, revenueGrowth |-> None,
           enterpriseToEbitda |-> None]

NoResult == [decision |-> "none"]

Scores(i) ==
    [pe |-> score_pe(i.trailingPE),
     roe |-> score_roe(IF i.returnOnEquity # None
                       THEN Number(i.returnOnEquity[1] * 100) ELSE None),
     de |-> score_debt_equity(i.debtToEquity),
     beta |-> score_beta(i.beta),
     dividend |-> score_dividend_yield(i.dividendYield),
     growth |-> score_revenue_growth(i.revenueGrowth),
     evebitda |-> score_ev_ebitda(i.enterpriseToEbitda)]

\* analyze_stock_sync, from the info of the ticker on
analyze_stock_sync(i, b) ==
    LET scores == Scores(i)
        total_score == FloatSum([k \in 1..Len(Keys) |->
                           IntTimesFloat(scores[Keys[k]], WEIGHTS[Keys[k]])], b)
        decision == IF FloatGeq(total_score, Double(<<15>>, 55)) THEN "BUY"
                    ELSE IF FloatGeq(total_score, IntFloat(6)) THEN "HOLD"
                    ELSE "SELL"
    IN  [raw_metrics |-> i, scores |-> scores, total |-> total_score,
         total_score |-> RoundHundredths(total_score),
         decision |-> decision]

\* the knowledge base and the scoring service before any call
InitServices ==
    /\ build = "sequential"
    /\ info = NoInfo
    /\ result = NoResult
    /\ kb = <<>>
    /\ kbLog = <<>>

\* the conversations whose runs interleave
Conversations == {"a", "b"}

\* a run before get_agent_graph_response is called for it
RunInit ==
    [pc |-> "IDLE", messages |-> <<>>, nextId |-> 1, pending |-> {},
     outputs |-> <<>>, execCount |-> [t \in available_tools_list |-> 0],
     executed |-> {}, responses |-> <<>>, returned |-> NoMessage,
     failure |-> ""]

InitRuns == runs = [c \in Conversations |-> RunInit]

InitAgent ==
    /\ pc = "IDLE"
    /\ history = <<>>
    /\ messages = <<>>
    /\ nextId = 1
    /\ steps = 0
    /\ pending = {}
    /\ outputs = <<>>
    /\ finished = <<>>
    /\ execCount = [t \in available_tools_list |-> 0]
    /\ execLog = {}
    /\ contexts = <<>>
    /\ responses = <<>>
    /\ trace = <<>>
    /\ returned = NoMessage
    /\ failure = ""

\* neither page has handled a message yet
InitPages ==
    /\ page = [shown |-> <<>>, session |-> <<>>]
    /\ chat = [shown |-> <<>>, db |-> <<>>, notified |-> <<>>]

\* the three backing services answer their checks
ServicesUp == [database |-> "ok", ollama |-> "200", qdrant |-> "200"]

\* the row of a user who has not failed a login and is not locked
NewAccount == [failed_login_attempts |-> 0, locked_until |-> None]

\* the login requests for the user that can be under way at the same time
LoginRequests == {"r1", "r2"}

\* no authenticate_user is under way
IdleLogin == [pc |-> "idle", correct |-> FALSE, loaded |-> NewAccount,
              update |-> <<>>, returned |-> ""]

\* conversations created at most
MaxConversations == 2

\* messages stored in a conversation at most
MaxStoredMessages == 1

\* no row of the conversations table has this id yet
AbsentConversation ==
    [state |-> "absent", user_id |-> None, title |-> "", messages |-> 0]

\* the conversations table is empty
NoConversations == [c \in 1..MaxConversations |-> AbsentConversation]

\* no chat page is open
NoChatPage == [who |-> 0, user_id |-> None, role |-> "", listed |-> {},
               selected_conv_id |-> 0]

\* accounts created at most
MaxUsers == 3

\* the users table after init_db: ensure_sysadmin_exists has created the
\* default sysadmin
FirstUsers == [u \in 1..MaxUsers |-> IF u = 1 THEN "sysadmin" ELSE "absent"]

\* the user-management requests that can be under way at the same time
AdminClients == {"a1", "a2"}

\* no user-management request is under way
IdleAdminRequest == [pc |-> "idle", op |-> "none", current |-> 0,
                     is_sysadmin |-> FALSE, target |-> 0, role |-> "none"]

\* the /auth/refresh requests that can be under way at the same time
Refreshers == {"q1", "q2"}

\* no /auth/refresh is under way
IdleRefresh == [pc |-> "idle", jti |-> 0, status |-> 0]

\* get_current_user has not been asked
NoAuth == [pc |-> "idle", jti |-> 0, status |-> 0]

\* the handlers of the chat page that can run at the same time on one
\* conversation (two sessions, or two sends of one session)
Senders == {"first", "second"}

\* no send is under way
IdleSend == [pc |-> "idle", message |-> "", before |-> <<>>, history |-> <<>>,
             outcome |-> ""]

\* no history has been converted
NotFormatted == <<NoMessage>>

\* no application error is being built
NoRequest == [cls |-> "none"]

NoError == [raised |-> "none"]

\* the parts around the agent before any request, but for the parts named
\* in S
InitApiExcept(S) ==
    /\ IF "schema" \in S THEN TRUE ELSE batch = <<>> /\ handled = <<>>
    /\ IF "health" \in S THEN TRUE ELSE services = ServicesUp /\ probes = <<>>
    /\ IF "errors" \in S THEN TRUE ELSE request = NoRequest /\ built = NoError
    /\ IF "format" \in S THEN TRUE ELSE stMessages = <<>> /\ formatted = NotFormatted
    /\ IF "sends" \in S THEN TRUE ELSE convMessages = <<>> /\ sends = [s \in Senders |-> IdleSend]
    /\ IF "login" \in S THEN TRUE ELSE account = NewAccount /\ now = 0 /\ logins = [p \in LoginRequests |-> IdleLogin]
    /\ IF "tokens" \in S THEN TRUE ELSE issued = <<>> /\ blacklist = {} /\ clock = 0 /\ refreshes = [q \in Refreshers |-> IdleRefresh] /\ granted = {} /\ auth = NoAuth /\ loggedOut = {}
    /\ IF "admin" \in S THEN TRUE ELSE users = FirstUsers /\ adminRequests = [a \in AdminClients |-> IdleAdminRequest]
    /\ IF "chatdb" \in S THEN TRUE ELSE conversations = NoConversations /\ chatPage = NoChatPage

\* the agent, its callers and the services before any call
InitCore == InitAgent /\ InitRuns /\ InitPages /\ InitServices

Init == InitCore /\ InitApiExcept({})

\* a text on a page: the sequence of the pieces it is put together from
\* (the empty text is the empty sequence)
Text(str) == IF str = "" THEN <<>> ELSE <<str>>

\* the handler of the chat input before it calls the agent: the prompt is
\* appended to the session and shown
PagePrompt(pg, prompt) ==
    [pg EXCEPT !.session = Append(pg.session, [role |-> "user",
                                               content |-> Text(prompt),
                                               tool_calls |-> <<>>]),
               !.shown = Append(pg.shown, [kind |-> "markdown", role |-> "user",
                                           content |-> Text(prompt)])]

\* the chat input handler of the Streamlit page calls
\* get_agent_graph_response(prompt, history_for_agent): the function up to
\* the first super-step of app.ainvoke
GetAgentGraphResponse ==
    /\ pc = "IDLE"
    /\ \E chat_history \in Histories, user_query \in {"q"} :
          LET formatted_history == format_st_history_to_langchain(chat_history)
              input == <<SystemMessage(SYSTEM_PROMPT)>> \o formatted_history
                         \o <<HumanMessage(user_query)>>
          IN  /\ messages' = add_messages(<<>>, input, nextId)
              /\ nextId' = nextId + CountNoId(input)
              /\ history' = chat_history
              /\ page' = PagePrompt(page, user_query)
    /\ pc' = "AWAITING_MODEL"
    /\ trace' = <<"AWAITING_MODEL">>
    /\ UNCHANGED <<steps, pending, outputs, finished, execCount, execLog,
                   contexts, responses, returned, failure>>
    /\ UNCHANGED <<concVars, chat, serviceVars, apiVars>>

\* call_model_node: the model answers with one assistant message
CallModelNode ==
    /\ pc = "AWAITING_MODEL"
    /\ \E reqs \in {<<>>} \cup ToolCallChoices(responses, history) :
          LET content == IF reqs = <<>> THEN "answer" ELSE ""
              response_ai_message == Response(content, reqs, nextId)
          IN  /\ messages' = add_messages(messages, <<response_ai_message>>,
                                          nextId + Len(reqs) + 1)
              /\ nextId' = nextId + Len(reqs) + 1
              /\ responses' = Append(responses, response_ai_message)
    /\ contexts' = Append(contexts, messages)
    /\ steps' = steps + 1
    /\ pc' = "MODEL_RESPONDED"
    /\ trace' = Append(trace, "MODEL_RESPONDED")
    /\ finished' = <<>>
    /\ UNCHANGED <<history, pending, outputs, execCount, execLog,
                   returned, failure>>
    /\ UNCHANGED notAgentVars

\* call_model_node: llm_with_tools.ainvoke raises
CallModelNodeRaises ==
    /\ pc = "AWAITING_MODEL"
    /\ contexts' = Append(contexts, messages)
    /\ steps' = steps + 1
    /\ pc' = AfterModelError
    /\ trace' = Append(trace, AfterModelError)
    /\ failure' = IF AfterModelError = "FAILED" THEN "ModelCallError" ELSE failure
    /\ finished' = <<>>
    /\ UNCHANGED <<history, messages, nextId, pending, outputs, execCount,
                   execLog, responses, returned>>
    /\ UNCHANGED notAgentVars

\* should_continue_edge = "end_conversation": END, and
\* get_agent_graph_response returns final_state['messages'][-1]
EndConversation ==
    /\ pc = "MODEL_RESPONDED"
    /\ should_continue_edge(messages) = "end_conversation"
    /\ pc' = "DONE"
    /\ trace' = Append(trace, "DONE")
    /\ returned' = LastMessage(messages)
    /\ UNCHANGED <<history, messages, nextId, steps, pending, outputs, finished,
                   execCount, execLog, contexts, responses, failure>>
    /\ UNCHANGED notAgentVars

\* should_continue_edge = "continue_to_tools": the "action" node starts and
\* ToolNode starts one coroutine per tool call of the last message
ContinueToTools ==
    /\ pc = "MODEL_RESPONDED"
    /\ should_continue_edge(messages) = "continue_to_tools"
    /\ ~OutOfSteps(steps)
    /\ LET calls == LastMessage(messages).tool_calls
       IN  /\ pending' = Dispatched(calls)
           /\ outputs' = InitialOutputs(calls)
           /\ execCount' = CountDispatch(execCount, calls)
           /\ finished' = Rejected(calls)
    /\ steps' = steps + 1
    /\ pc' = "EXECUTING_TOOLS"
    /\ trace' = Append(trace, "EXECUTING_TOOLS")
    /\ UNCHANGED <<history, messages, nextId, execLog, contexts, responses, returned,
                   failure>>
    /\ UNCHANGED notAgentVars

\* should_continue_edge = "continue_to_tools", but the "action" node would be
\* one super-step more than recursion_limit: GraphRecursionError leaves
\* app.ainvoke
RecursionLimitReached ==
    /\ pc = "MODEL_RESPONDED"
    /\ should_continue_edge(messages) = "continue_to_tools"
    /\ OutOfSteps(steps)
    /\ pc' = "FAILED"
    /\ trace' = Append(trace, "FAILED")
    /\ failure' = "GraphRecursionError"
    /\ UNCHANGED <<history, messages, nextId, steps, pending, outputs, finished,
                   execCount, execLog, contexts, responses, returned>>
    /\ UNCHANGED notAgentVars

\* one executor of the batch returns
ToolReturns ==
    /\ pc = "EXECUTING_TOOLS"
    /\ \E i \in pending, outcome \in OutcomeChoices(responses) :
          LET call == LastMessage(messages).tool_calls[i]
              res == Executor(call.name, outcome)
          IN  /\ outputs' = [outputs EXCEPT ![i] = ToolOutput(call, res)]
              /\ pending' = pending \ {i}
              /\ finished' = Append(finished, i)
              /\ execLog' = execLog \cup
                     {[call_id |-> call.id, name |-> call.name,
                       round |-> Len(responses), outcome |-> outcome,
                       kind |-> res.kind]}
    /\ UNCHANGED <<pc, history, messages, nextId, steps, execCount, contexts, responses,
                   trace, returned, failure>>
    /\ UNCHANGED notAgentVars

\* every call of the batch has its output: ToolNode returns the tool
\* messages, add_messages merges them, and the edge action -> agent is taken
\* (GraphRecursionError if the "agent" node would exceed recursion_limit)
ToolNodeReturns ==
    /\ pc = "EXECUTING_TOOLS"
    /\ pending = {}
    /\ LET outs == GatheredOutputs(outputs, finished)
       IN  /\ messages' = add_messages(messages, outs, nextId)
           /\ nextId' = nextId + CountNoId(outs)
    /\ outputs' = <<>>
    /\ pc' = IF OutOfSteps(steps) THEN "FAILED" ELSE ActionEdgeTarget
    /\ trace' = Append(trace, pc')
    /\ failure' = IF OutOfSteps(steps) THEN "GraphRecursionError" ELSE failure
    /\ UNCHANGED <<history, steps, pending, finished, execCount, execLog,
                   contexts, responses, returned>>
    /\ UNCHANGED notAgentVars

----------------------------------------------------------------------------
(* The callers: pages/3_Chat_con_Agente_Graph.py and ChatPage *)

\* mutant of PageErrorMessage: the except branch reports nothing
PageErrorSilent(e) == <<>>

\* f"Si è verificato un errore critico nel grafo: {str(e)}"
PageErrorMessage(e) ==
    <<"Si e verificato un errore critico nel grafo: ">> \o Text(e)

\* f"Errore: {str(e)}"
ChatErrorMessage(e) == <<"Errore: ">> \o Text(e)

\* get_agent_graph_response takes (user_query, chat_history)
AgentParameters == 2
\* ChatPage calls get_agent_graph_response(message, history, thread_id)
ChatPageArguments == 3

\* the handler of the chat input has not finished yet
PageWaits ==
    /\ page.session # <<>>
    /\ page.session[Len(page.session)].role = "user"

\* asyncio.run(get_agent_graph_response(...)) returned: the text of the
\* answer is shown and appended to the session
PageShowsAnswer ==
    /\ pc = "DONE"
    /\ PageWaits
    /\ LET response_text == Text(returned.content)
       IN  page' = [page EXCEPT
                !.shown = Append(page.shown,
                    [kind |-> "markdown", role |-> "assistant",
                     content |-> response_text]),
                !.session = Append(page.session,
                    [role |-> "assistant", content |-> response_text,
                     tool_calls |-> returned.tool_calls])]
    /\ UNCHANGED <<agentVars, concVars, chat, serviceVars, apiVars>>

\* asyncio.run(get_agent_graph_response(...)) raised: except Exception
PageShowsError ==
    /\ pc = "FAILED"
    /\ PageWaits
    /\ LET error_msg == PageErrorMessage(failure)
       IN  page' = [page EXCEPT
                !.shown = Append(page.shown,
                    [kind |-> "error", role |-> "assistant",
                     content |-> error_msg]),
                !.session = Append(page.session,
                    [role |-> "assistant", content |-> error_msg,
                     tool_calls |-> <<>>])]
    /\ UNCHANGED <<agentVars, concVars, chat, serviceVars, apiVars>>

\* ChatPage._on_send_message for a selected conversation: the message is
\* stored and shown; the call of get_agent_graph_response with one argument
\* too many raises TypeError before any run starts, and the except branch
\* shows and notifies the error (nothing is stored for the assistant)
ChatPageSendMessage ==
    /\ chat.shown = <<>>
    /\ \E message \in {"q"} :
          LET stored == Append(chat.db, [role |-> "user", content |-> Text(message)])
              shown == Append(chat.shown, [role |-> "user", content |-> Text(message)])
              error_msg == ChatErrorMessage("TypeError")
          IN  /\ ChatPageArguments # AgentParameters
              /\ chat' = [shown |-> Append(shown,
                              [role |-> "assistant", content |-> error_msg]),
                          db |-> stored,
                          notified |-> Append(chat.notified, error_msg)]
    /\ UNCHANGED <<agentVars, concVars, page, serviceVars, apiVars>>

Next ==
    \/ GetAgentGraphResponse
    \/ CallModelNode
    \/ CallModelNodeRaises
    \/ EndConversation
    \/ ContinueToTools
    \/ RecursionLimitReached
    \/ ToolReturns
    \/ ToolNodeReturns
    \/ PageShowsAnswer
    \/ PageShowsError
    \/ ChatPageSendMessage

Spec == Init /\ [][Next]_vars

\* The steps the graph runtime takes by itself are taken when they can be:
\* routing after a response, and returning the tool messages once every
\* coroutine of the batch has ended. The answers of the services (the chat
\* model, the executors' remote calls) carry no such guarantee: the tools
\* await them without asyncio.wait_for or any other timeout.
LiveSpec ==
    /\ Init /\ [][Next]_vars
    /\ WF_vars(EndConversation)
    /\ WF_vars(ContinueToTools)
    /\ WF_vars(RecursionLimitReached)
    /\ WF_vars(ToolNodeReturns)

----------------------------------------------------------------------------
(* Interleaved runs: get_agent_graph_response is a coroutine, and the        *)
(* module-level app, tool_node and llm_with_tools serve every call of it.    *)
(* Each call has its own graph state (app is compiled without a             *)
(* checkpointer). The runs modelled here have an empty history and ask for  *)
(* at most MaxRunCalls tool calls, so none of them comes near the recursion  *)
(* limit. Every step is given as the set of states of the run it can lead   *)
(* to, from the state rs of all runs and the conversation c of the run.     *)

RECURSIVE SumCounts(_, _, _)
SumCounts(rs, D, t) ==
    IF D = {} THEN 0
    ELSE LET d == CHOOSE x \in D : TRUE
         IN  rs[d].execCount[t] + SumCounts(rs, D \ {d}, t)

\* mutant of CountsOfRun: one table of invocation counts for all runs
CountsOfAllRuns(rs, c) ==
    [t \in available_tools_list |-> SumCounts(rs, DOMAIN rs, t)]

\* the invocation counts a batch of the run of c adds to: those of that run
CountsOfRun(rs, c) == rs[c].execCount

\* get_agent_graph_response(user_query, [])
StartSteps(rs, c) ==
    IF rs[c].pc # "IDLE" THEN {}
    ELSE LET input == <<SystemMessage(SYSTEM_PROMPT)>>
                        \o format_st_history_to_langchain(<<>>)
                        \o <<HumanMessage(c)>>
         IN  {[rs[c] EXCEPT !.pc = "AWAITING_MODEL",
                            !.messages = add_messages(<<>>, input, rs[c].nextId),
                            !.nextId = rs[c].nextId + CountNoId(input)]}

\* call_model_node returns a response (the model calls of a run are followed
\* up to one more than MaxRunCalls)
ModelSteps(rs, c) ==
    IF rs[c].pc # "AWAITING_MODEL" \/ Len(rs[c].responses) > MaxRunCalls THEN {}
    ELSE LET r == rs[c]
             choices == {<<>>} \cup NonEmptySeqsUpTo(Requests,
                                       MaxRunCalls - Requested(r.responses))
         IN  {LET content == IF reqs = <<>> THEN "answer" ELSE ""
                  response_ai_message == Response(content, reqs, r.nextId)
                  n == r.nextId + Len(reqs) + 1
              IN  [r EXCEPT !.pc = "MODEL_RESPONDED",
                            !.messages = add_messages(r.messages,
                                             <<response_ai_message>>, n),
                            !.nextId = n,
                            !.responses = Append(r.responses, response_ai_message)]
              : reqs \in choices}

\* call_model_node raises
RaiseSteps(rs, c) ==
    IF rs[c].pc # "AWAITING_MODEL" THEN {}
    ELSE {[rs[c] EXCEPT !.pc = AfterModelError, !.failure = "ModelCallError"]}

\* should_continue_edge = "end_conversation"
EndSteps(rs, c) ==
    IF rs[c].pc = "MODEL_RESPONDED"
       /\ should_continue_edge(rs[c].messages) = "end_conversation"
    THEN {[rs[c] EXCEPT !.pc = "DONE",
                        !.returned = LastMessage(rs[c].messages)]}
    ELSE {}

\* should_continue_edge = "continue_to_tools": ToolNode starts the batch
ToolStartSteps(rs, c) ==
    IF rs[c].pc = "MODEL_RESPONDED"
       /\ should_continue_edge(rs[c].messages) = "continue_to_tools"
    THEN LET calls == LastMessage(rs[c].messages).tool_calls
         IN  {[rs[c] EXCEPT !.pc = "EXECUTING_TOOLS",
                            !.pending = Dispatched(calls),
                            !.outputs = InitialOutputs(calls),
                            !.execCount = CountDispatch(CountsOfRun(rs, c), calls)]}
    ELSE {}

\* one executor of the batch returns
ToolReturnSteps(rs, c) ==
    IF rs[c].pc # "EXECUTING_TOOLS" THEN {}
    ELSE LET r == rs[c]
         IN  {LET call == LastMessage(r.messages).tool_calls[io[1]]
                  res == Executor(call.name, io[2])
              IN  [r EXCEPT !.outputs[io[1]] = ToolOutput(call, res),
                            !.pending = r.pending \ {io[1]},
                            !.executed = r.executed \cup
                                {[call_id |-> call.id, name |-> call.name,
                                  outcome |-> io[2]]}]
              : io \in r.pending \X ExecutorOutcomes}

\* ToolNode returns the tool messages of the batch
BatchSteps(rs, c) ==
    IF rs[c].pc = "EXECUTING_TOOLS" /\ rs[c].pending = {}
    THEN LET outs == GatheredOutputs(rs[c].outputs, <<>>)
         IN  {[rs[c] EXCEPT !.pc = ActionEdgeTarget,
                            !.messages = add_messages(rs[c].messages, outs,
                                                      rs[c].nextId),
                            !.nextId = rs[c].nextId + CountNoId(outs),
                            !.outputs = <<>>]}
    ELSE {}

RunStarts ==
    /\ \E c \in Conversations : \E s \in StartSteps(runs, c) :
          runs' = [runs EXCEPT ![c] = s]
    /\ UNCHANGED notConcVars

RunCallsModel ==
    /\ \E c \in Conversations : \E s \in ModelSteps(runs, c) :
          runs' = [runs EXCEPT ![c] = s]
    /\ UNCHANGED notConcVars

RunModelRaises ==
    /\ \E c \in Conversations : \E s \in RaiseSteps(runs, c) :
          runs' = [runs EXCEPT ![c] = s]
    /\ UNCHANGED notConcVars

RunEnds ==
    /\ \E c \in Conversations : \E s \in EndSteps(runs, c) :
          runs' = [runs EXCEPT ![c] = s]
    /\ UNCHANGED notConcVars

RunStartsTools ==
    /\ \E c \in Conversations : \E s \in ToolStartSteps(runs, c) :
          runs' = [runs EXCEPT ![c] = s]
    /\ UNCHANGED notConcVars

RunToolReturns ==
    /\ \E c \in Conversations : \E s \in ToolReturnSteps(runs, c) :
          runs' = [runs EXCEPT ![c] = s]
    /\ UNCHANGED notConcVars

RunToolNodeReturns ==
    /\ \E c \in Conversations : \E s \in BatchSteps(runs, c) :
          runs' = [runs EXCEPT ![c] = s]
    /\ UNCHANGED notConcVars

NextRuns ==
    \/ RunStarts
    \/ RunCallsModel
    \/ RunModelRaises
    \/ RunEnds
    \/ RunStartsTools
    \/ RunToolReturns
    \/ RunToolNodeReturns

ConcSpec == Init /\ [][NextRuns]_vars

\* every state the run of c can get into by one step
RunSuccessors(rs, c) ==
    StartSteps(rs, c) \cup ModelSteps(rs, c) \cup RaiseSteps(rs, c)
    \cup EndSteps(rs, c) \cup ToolStartSteps(rs, c)
    \cup ToolReturnSteps(rs, c) \cup BatchSteps(rs, c)

RECURSIVE RunClosure(_, _, _)
RunClosure(c, seen, frontier) ==
    IF frontier = {} THEN seen
    ELSE LET new == UNION {RunSuccessors([d \in {c} |-> s], c) : s \in frontier}
                    \ seen
         IN  RunClosure(c, seen \cup new, new)

\* the states of the run of c when no other run exists
AloneReachable == [c \in Conversations |-> RunClosure(c, {RunInit}, {RunInit})]

----------------------------------------------------------------------------
(* The stock score on its own: analyze_stock_sync for every info drawn, on  *)
(* either kind of interpreter                                                *)

InitScore ==
    /\ InitAgent /\ InitRuns /\ InitPages /\ InitApiExcept({})
    /\ build \in Builds
    /\ info \in Infos
    /\ result = NoResult
    /\ kb = <<>>
    /\ kbLog = <<>>

AnalyzeStock ==
    /\ result = NoResult
    /\ result' = analyze_stock_sync(info, build)
    /\ UNCHANGED <<agentVars, concVars, pageVars, build, info, kbVars, apiVars>>

NextScore == AnalyzeStock

ScoreSpec == InitScore /\ [][NextScore]_vars

----------------------------------------------------------------------------
(* The knowledge base on its own: read_from_kb_tool and write_to_kb_tool on *)
(* the Qdrant collection                                                     *)

\* the calls of the two tools that the model follows
MaxKbCalls == 3

\* the contents the model asks to save
Contents == {"", "hashtag guideline"}

\* the queries the model asks
Queries == {"hashtag"}

\* create_embedding: Ollama answers with a vector, answers without the
\* "embedding" key (the default [] is returned), or the request raises
EmbeddingOutcomes == {"vector", "empty", "raised"}

\* the Qdrant client: the call is served or it raises
QdrantOutcomes == {"ok", "raised"}

\* the collection is persistent: it is new, or it holds a point that was
\* not written with a "text" payload
InitialStores == {<<>>, <<[id |-> 0, payload |-> [source |-> "import"]]>>}

SEARCH_NOTHING_FOUND == "Nessun contesto rilevante trovato."

EMBEDDING_ERROR == "Error: Could not create embedding."

\* f"KB read error: {str(e)}"
KBReadError(e) == <<"KB read error: ">> \o Text(e)

\* f"KB write error: {str(e)}"
KBWriteError(e) == <<"KB write error: ">> \o Text(e)

\* f"Information saved to KB (ID: {point_id})."
KBSaved(point_id) == <<"Information saved to KB (ID: ", ToString(point_id), ").">>

\* payload.get("text", "")
PayloadText(payload) ==
    IF "text" \in DOMAIN payload THEN payload.text ELSE ""

\* VectorStoreService.search with limit 1, when hit is the position of the
\* best match (0 when the collection has no point)
search(store, hit) ==
    IF hit # 0 THEN Text(PayloadText(store[hit].payload))
    ELSE Text(SEARCH_NOTHING_FOUND)

\* the positions the best match can have
Hits(store) == IF store = <<>> THEN {0} ELSE 1..Len(store)

\* the identifiers of the points and of the earlier writes
UsedIds(store, log) ==
    {store[i].id : i \in 1..Len(store)}
        \cup {log[i].id : i \in {j \in 1..Len(log) : log[j].tool = "write_to_kb_tool"}}

RECURSIVE MaxOf(_)
MaxOf(S) ==
    IF S = {} THEN 0
    ELSE LET x == CHOOSE y \in S : TRUE
             m == MaxOf(S \ {x})
         IN  IF x > m THEN x ELSE m

\* mutant of point_id: the identifier of the first write is used again
point_id_reused(store, log) == 1

\* uuid.uuid4().int & ((1 << 63) - 1): an identifier that was not used
point_id(store, log) == MaxOf(UsedIds(store, log)) + 1

\* VectorStoreService.add_context: upsert of one point
add_context(store, question_id, text) ==
    LET point == [id |-> question_id, payload |-> [text |-> text]]
    IN  IF \E i \in 1..Len(store) : store[i].id = question_id
        THEN [i \in 1..Len(store) |->
                 IF store[i].id = question_id THEN point ELSE store[i]]
        ELSE Append(store, point)

\* one call of read_from_kb_tool
ReadFromKb ==
    /\ Len(kbLog) < MaxKbCalls
    /\ \E query \in Queries, e \in EmbeddingOutcomes, q \in QdrantOutcomes,
          hit \in Hits(kb) :
          LET calls == IF e = "vector" THEN <<"create_embedding", "search">>
                       ELSE <<"create_embedding">>
              out == IF e = "raised" THEN KBReadError("HTTPStatusError")
                     ELSE IF e = "empty" THEN Text(EMBEDDING_ERROR)
                     ELSE IF q = "raised" THEN KBReadError("ResponseHandlingException")
                     ELSE search(kb, hit)
          IN  kbLog' = Append(kbLog,
                  [tool |-> "read_from_kb_tool", arg |-> query,
                   embedding |-> e,
                   qdrant |-> IF e = "vector" THEN q ELSE "none",
                   calls |-> calls, id |-> 0, returned |-> out])
    /\ UNCHANGED <<agentVars, concVars, pageVars, scoreVars, kb, apiVars>>

\* one call of write_to_kb_tool
WriteToKb ==
    /\ Len(kbLog) < MaxKbCalls
    /\ \E content \in Contents, e \in EmbeddingOutcomes, q \in QdrantOutcomes :
          LET id == point_id(kb, kbLog)
              upserts == e = "vector"
              calls == IF upserts THEN <<"create_embedding", "upsert">>
                       ELSE <<"create_embedding">>
              out == IF e = "raised" THEN KBWriteError("HTTPStatusError")
                     ELSE IF e = "empty" THEN Text(EMBEDDING_ERROR)
                     ELSE IF q = "raised" THEN KBWriteError("ResponseHandlingException")
                     ELSE KBSaved(id)
          IN  /\ kb' = IF upserts /\ q = "ok" THEN add_context(kb, id, content)
                       ELSE kb
              /\ kbLog' = Append(kbLog,
                    [tool |-> "write_to_kb_tool", arg |-> content,
                     embedding |-> e,
                     qdrant |-> IF upserts THEN q ELSE "none",
                     calls |-> calls,
                     id |-> IF upserts THEN id ELSE 0, returned |-> out])
    /\ UNCHANGED <<agentVars, concVars, pageVars, scoreVars, apiVars>>

InitKb ==
    /\ InitAgent /\ InitRuns /\ InitPages /\ InitApiExcept({})
    /\ build = "sequential"
    /\ info = NoInfo
    /\ result = NoResult
    /\ kb \in InitialStores
    /\ kbLog = <<>>

NextKb == ReadFromKb \/ WriteToKb

KbSpec == InitKb /\ [][NextKb]_vars

----------------------------------------------------------------------------
(* The args_schema of the text tools on its own: ToolNode hands each call   *)
(* of a batch to its tool, which validates the arguments before its         *)
(* coroutine runs                                                            *)

\* longest batch of tool calls
MaxBatch == 2

\* the tools whose schema has one text field
TextTools == {"web_search_tool", "read_from_kb_tool", "write_to_kb_tool"}

\* the one field of the schema of a text tool
SchemaField(name) == IF name = "write_to_kb_tool" THEN "content" ELSE "query"

\* the value a call gives for the field: a string, something that is not a
\* string, or nothing
ArgValues ==
    [type : {"str"}, text : {"", "hashtag guideline"}]
    \cup [type : {"int", "missing"}, text : {""}]

\* the tool calls the model draws
ToolInputs == [name : TextTools, value : ArgValues]

\* BaseModel validation of WebSearchSchema, KBReadSchema and KBWriteSchema:
\* the field is required and is a str, with no further constraint
SchemaAccepts(name, value) == value.type = "str"

\* ToolNode hands the first call of the batch to its tool
ToolInvoke ==
    /\ batch # <<>>
    /\ LET call == Head(batch)
           ok == IsRegistered(call.name) /\ SchemaAccepts(call.name, call.value)
       IN  handled' = Append(handled,
               [call |-> call, field |-> SchemaField(call.name),
                executed |-> ok,
                status |-> IF ok THEN "success" ELSE "error"])
    /\ batch' = Tail(batch)
    /\ UNCHANGED notSchemaVars

InitSchema ==
    /\ InitCore /\ InitApiExcept({"schema"})
    /\ batch \in NonEmptySeqsUpTo(ToolInputs, MaxBatch)
    /\ handled = <<>>

NextSchema == ToolInvoke

SchemaSpec == InitSchema /\ [][NextSchema]_vars

----------------------------------------------------------------------------
(* The health endpoints of src/api/health.py                                 *)

\* the requests to the health endpoints that the model follows
MaxProbes == 2

\* what SELECT 1 does: it answers, it takes longer than HEALTH_CHECK_TIMEOUT,
\* or the connection raises
DatabaseOutcomes == {"ok", "timeout", "error"}

\* what GET /api/tags and GET /readyz do: status 200, another status, a
\* timeout of asyncio, or another exception
HttpOutcomes == {"200", "500", "timeout", "error"}

ServiceStates ==
    [database : DatabaseOutcomes, ollama : HttpOutcomes, qdrant : HttpOutcomes]

check_database(outcome) == IF outcome = "ok" THEN "healthy" ELSE "unhealthy"

check_ollama(outcome) ==
    CASE outcome = "200" -> "healthy"
      [] outcome = "500" -> "degraded"
      [] outcome = "timeout" -> "unhealthy"
      [] outcome = "error" -> "degraded"

check_qdrant(outcome) ==
    CASE outcome = "200" -> "healthy"
      [] outcome = "500" -> "degraded"
      [] outcome = "timeout" -> "unhealthy"
      [] outcome = "error" -> "degraded"

\* the overall status of health_check
overall_status(sv) ==
    LET statuses == {check_database(sv.database), check_ollama(sv.ollama),
                     check_qdrant(sv.qdrant)}
    IN  IF statuses = {"healthy"} THEN "healthy"
        ELSE IF "unhealthy" \in statuses THEN "unhealthy"
        ELSE "degraded"

\* GET /health
health_check(sv) ==
    [path |-> "/health",
     status_code |-> IF overall_status(sv) = "unhealthy" THEN 503 ELSE 200,
     status |-> overall_status(sv), reason |-> "", seen |-> sv]

\* mutant of readiness_probe: the overall status decides
readiness_probe_overall(sv) ==
    IF overall_status(sv) = "unhealthy"
    THEN [path |-> "/health/ready", status_code |-> 503,
          status |-> "not ready", reason |-> "database unavailable", seen |-> sv]
    ELSE [path |-> "/health/ready", status_code |-> 200,
          status |-> "ready", reason |-> "", seen |-> sv]

\* GET /health/ready
readiness_probe(sv) ==
    IF check_database(sv.database) = "unhealthy"
    THEN [path |-> "/health/ready", status_code |-> 503,
          status |-> "not ready", reason |-> "database unavailable", seen |-> sv]
    ELSE [path |-> "/health/ready", status_code |-> 200,
          status |-> "ready", reason |-> "", seen |-> sv]

ReadinessProbe ==
    /\ Len(probes) < MaxProbes
    /\ probes' = Append(probes, readiness_probe(services))
    /\ UNCHANGED <<services, notHealthVars>>

HealthCheck ==
    /\ Len(probes) < MaxProbes
    /\ probes' = Append(probes, health_check(services))
    /\ UNCHANGED <<services, notHealthVars>>

InitHealth ==
    /\ InitCore /\ InitApiExcept({"health"})
    /\ services \in ServiceStates
    /\ probes = <<>>

NextHealth == ReadinessProbe \/ HealthCheck

HealthSpec == InitHealth /\ [][NextHealth]_vars

----------------------------------------------------------------------------
(* The error classes of src/core/exceptions.py                               *)

ErrorClasses ==
    {"AppError", "DatabaseError", "LLMError", "VectorStoreError", "ToolError",
     "ValidationError", "NotFoundError", "ExternalServiceError"}

\* the parameters of __init__ after self, in order
InitParameters(cls) ==
    CASE cls = "AppError" -> <<"message", "code", "status_code", "details">>
      [] cls \in {"DatabaseError", "LLMError", "VectorStoreError"} ->
            <<"message", "details">>
      [] cls = "ToolError" -> <<"tool_name", "message", "details">>
      [] cls = "ValidationError" -> <<"message", "field">>
      [] cls = "NotFoundError" -> <<"resource", "resource_id">>
      [] cls = "ExternalServiceError" -> <<"service", "message", "details">>

\* the parameters without a default
RequiredParameters(cls) ==
    CASE cls = "ToolError" -> {"tool_name", "message"}
      [] cls = "NotFoundError" -> {"resource", "resource_id"}
      [] cls = "ExternalServiceError" -> {"service", "message"}
      [] OTHER -> {"message"}

\* the messages, the code and the details the model builds errors with
ErrorMessages == {"Test error", "Connection failed", ""}

CUSTOM_CODE == "CUSTOM_CODE"

CustomDetails == {<<"key", "value">>}

\* the message given by keyword
KEYWORD_MESSAGE == "API timeout"

\* one positional argument, and code, details and message by keyword or not
\* at all
ErrorRequests ==
    [cls : ErrorClasses, arg : ErrorMessages,
     keywords : SUBSET {"code", "details", "message"}]

\* the call binds its arguments, or raises TypeError: a keyword that is no
\* parameter, or a parameter without default that got no argument
Binds(r) ==
    LET params == InitParameters(r.cls)
        names == {params[i] : i \in 1..Len(params)}
    IN  /\ r.keywords \subseteq names
        /\ params[1] \notin r.keywords
        /\ RequiredParameters(r.cls) \subseteq {params[1]} \cup r.keywords

\* AppError.__init__
AppErrorInit(message, code, status_code, details) ==
    [raised |-> "", message |-> message, code |-> code,
     status_code |-> status_code, details |-> details]

\* cls(arg, **keywords)
Construct(r) ==
    IF ~Binds(r) THEN [raised |-> "TypeError"]
    ELSE LET details == IF "details" \in r.keywords THEN CustomDetails ELSE {}
         IN  CASE r.cls = "AppError" ->
                    AppErrorInit(r.arg,
                                 IF "code" \in r.keywords THEN CUSTOM_CODE
                                 ELSE "INTERNAL_ERROR",
                                 500, details)
               [] r.cls = "DatabaseError" ->
                    AppErrorInit(r.arg, "DATABASE_ERROR", 503, details)
               [] r.cls = "LLMError" ->
                    AppErrorInit(r.arg, "LLM_ERROR", 503, details)
               [] r.cls = "VectorStoreError" ->
                    AppErrorInit(r.arg, "VECTOR_STORE_ERROR", 503, details)
               [] r.cls = "ValidationError" ->
                    AppErrorInit(r.arg, "VALIDATION_ERROR", 400, {})
               [] r.cls = "ToolError" ->
                    AppErrorInit(KEYWORD_MESSAGE, "TOOL_ERROR", 500,
                                 {<<"tool", r.arg>>} \cup details)
               [] r.cls = "ExternalServiceError" ->
                    AppErrorInit(KEYWORD_MESSAGE, "EXTERNAL_SERVICE_ERROR", 502,
                                 {<<"service", r.arg>>} \cup details)
               [] r.cls = "NotFoundError" ->
                    AppErrorInit(r.arg \o " not found", "NOT_FOUND", 404,
                                 {<<"resource", r.arg>>})

BuildError ==
    /\ built = NoError
    /\ built' = Construct(request)
    /\ UNCHANGED <<request, notErrorVars>>

InitErrors ==
    /\ InitCore /\ InitApiExcept({"errors"})
    /\ request \in ErrorRequests
    /\ built = NoError

NextErrors == BuildError

ErrorSpec == InitErrors /\ [][NextErrors]_vars

----------------------------------------------------------------------------
(* format_st_history_to_langchain on its own, for longer histories          *)

\* longest history that is converted
MaxEntries == 3

\* the entries of a stored conversation: the roles user and assistant, and
\* the roles system and tool for every other role
StoredEntries ==
    [role : {"user", "assistant", "system", "tool"},
     content : {"first text", "second text"}, tool_calls : {<<>>}]
    \cup [role : {"assistant"}, content : {"first text"},
          tool_calls : HistoryToolCalls]

FormatHistory ==
    /\ formatted = NotFormatted
    /\ formatted' = format_st_history_to_langchain(stMessages)
    /\ UNCHANGED <<stMessages, notFormatVars>>

InitFormat ==
    /\ InitCore /\ InitApiExcept({"format"})
    /\ stMessages \in SeqsUpTo(StoredEntries, MaxEntries)
    /\ formatted = NotFormatted

NextFormat == FormatHistory

FormatSpec == InitFormat /\ [][NextFormat]_vars

----------------------------------------------------------------------------
(* ChatPage._on_send_message, step by step between its awaits, for sends    *)
(* that interleave on one conversation                                      *)

\* most messages stored in the conversation
MaxStored == 3

\* the text of the n-th message that is sent
MessageText(n) == "message " \o ToString(n)

\* add_message(session, conv_id, "user", message): the message is stored
SendStores(s) ==
    /\ sends[s].pc = "idle"
    /\ Len(convMessages) < MaxStored
    /\ LET message == MessageText(Len(convMessages) + 1)
       IN  /\ convMessages' = Append(convMessages,
                                     [role |-> "user", content |-> message])
           /\ sends' = [sends EXCEPT ![s] = [IdleSend EXCEPT !.pc = "stored",
                                                !.message = message,
                                                !.before = convMessages]]
    /\ UNCHANGED notSendVars

\* messages = await get_messages(...); history = messages[:-1]
SendReadsHistory(s) ==
    /\ sends[s].pc = "stored"
    /\ sends' = [sends EXCEPT ![s].pc = "read",
                              ![s].history = SubSeq(convMessages, 1,
                                                    Len(convMessages) - 1)]
    /\ UNCHANGED <<convMessages, notSendVars>>

\* get_agent_graph_response(message, history, thread_id): one argument more
\* than the function takes, so the call raises TypeError and the except
\* branch reports it; nothing is stored for the assistant
SendCallsAgent(s) ==
    /\ sends[s].pc = "read"
    /\ sends' = [sends EXCEPT ![s].pc = "done",
                              ![s].outcome = IF ChatPageArguments = AgentParameters
                                             THEN "run" ELSE "TypeError"]
    /\ UNCHANGED <<convMessages, notSendVars>>

\* the handler has returned; the next message can be sent
SendReturns(s) ==
    /\ sends[s].pc = "done"
    /\ sends' = [sends EXCEPT ![s] = IdleSend]
    /\ UNCHANGED <<convMessages, notSendVars>>

InitSends ==
    /\ InitCore /\ InitApiExcept({"sends"})
    /\ convMessages = <<>>
    /\ sends = [s \in Senders |-> IdleSend]

NextSends ==
    \E s \in Senders :
        \/ SendStores(s)
        \/ SendReadsHistory(s)
        \/ SendCallsAgent(s)
        \/ SendReturns(s)

SendSpec == InitSends /\ [][NextSends]_vars

----------------------------------------------------------------------------
(* authenticate_user of src/services/auth_service.py, for logins of one     *)
(* user that interleave: each request loads the row in its own session,     *)
(* changes its copy and commits                                             *)

MAX_LOGIN_ATTEMPTS == 5

LOCKOUT_DURATION_MINUTES == 15

\* the clock is followed up to this minute
MaxTime == 20

\* the clock is read every this many minutes
TickMinutes == 5

\* the lock is set in the row and has not expired at minute t
IsLocked(row, t) == row.locked_until # None /\ t < row.locked_until[1]

\* the copy of the row as authenticate_user leaves it before the commit
\* (Lockout expired, reset; then the failed or the successful login)
ChangedCopy(loaded, correct, t) ==
    LET reset == IF loaded.locked_until # None THEN NewAccount ELSE loaded
    IN  IF correct
        THEN [failed_login_attempts |-> 0, locked_until |-> None]
        ELSE LET failed == reset.failed_login_attempts + 1
             IN  [failed_login_attempts |-> failed,
                  locked_until |->
                     IF failed >= MAX_LOGIN_ATTEMPTS
                     THEN Number(t + LOCKOUT_DURATION_MINUTES)
                     ELSE reset.locked_until]

\* the columns the commit writes: the attributes of the copy that differ
\* from what was loaded
ColumnsChanged(loaded, copy) ==
    {c \in {"failed_login_attempts", "locked_until"} : copy[c] # loaded[c]}

\* the UPDATE of the commit
ApplyUpdate(row, update) ==
    [c \in DOMAIN row |-> IF c \in DOMAIN update THEN update[c] ELSE row[c]]

\* time passes; a login under way is answered within the minute, so the
\* clock moves on between logins
Tick ==
    /\ \A r \in LoginRequests : logins[r].pc = "idle"
    /\ now + TickMinutes <= MaxTime
    /\ now' = now + TickMinutes
    /\ UNCHANGED <<account, logins, notLoginVars>>

\* authenticate_user up to its commit: the row is loaded; a row that is
\* still locked ends the call with None, else the copy is changed
AuthenticateLoads(r) ==
    /\ logins[r].pc = "idle"
    /\ \E correct \in BOOLEAN :
          IF IsLocked(account, now)
          THEN logins' = [logins EXCEPT ![r] =
                   [pc |-> "returned", correct |-> correct, loaded |-> account,
                    update |-> <<>>, returned |-> "None"]]
          ELSE LET copy == ChangedCopy(account, correct, now)
                   cols == ColumnsChanged(account, copy)
               IN  logins' = [logins EXCEPT ![r] =
                       [pc |-> "committing", correct |-> correct,
                        loaded |-> account,
                        update |-> [c \in cols |-> copy[c]],
                        returned |-> ""]]
    /\ UNCHANGED <<account, now, notLoginVars>>

\* await session.commit(), and the return of the user or of None
AuthenticateCommits(r) ==
    /\ logins[r].pc = "committing"
    /\ account' = ApplyUpdate(account, logins[r].update)
    /\ logins' = [logins EXCEPT ![r].pc = "returned",
                                ![r].returned = IF logins[r].correct
                                                THEN "user" ELSE "None"]
    /\ UNCHANGED <<now, notLoginVars>>

\* the login endpoint answers; the next login can be asked for
LoginAnswers(r) ==
    /\ logins[r].pc = "returned"
    /\ logins' = [logins EXCEPT ![r] = IdleLogin]
    /\ UNCHANGED <<account, now, notLoginVars>>

InitLogin ==
    /\ InitCore /\ InitApiExcept({"login"})
    /\ account = NewAccount
    /\ now = 0
    /\ logins = [r \in LoginRequests |-> IdleLogin]

NextLogin ==
    \/ Tick
    \/ \E r \in LoginRequests :
          \/ AuthenticateLoads(r)
          \/ AuthenticateCommits(r)
          \/ LoginAnswers(r)

LoginSpec == InitLogin /\ [][NextLogin]_vars

----------------------------------------------------------------------------
(* The tokens of src/api/auth.py: login, /auth/refresh, /auth/logout and    *)
(* get_current_user, with the token_blacklist table of                      *)
(* src/services/auth_service.py                                             *)

ACCESS_TOKEN_EXPIRE_MINUTES == 30

REFRESH_TOKEN_EXPIRE_DAYS == 7

\* a login or a refresh is started while fewer pairs of tokens exist
MaxPairs == 2

\* the clock is followed up to this minute
MaxClock == 40

\* the clock is read every this many minutes
ClockMinutes == 20

\* create_access_token: the token of the given jti, created at minute t
create_access_token(jti, t) ==
    [jti |-> jti, type |-> "access", exp |-> t + ACCESS_TOKEN_EXPIRE_MINUTES]

\* create_refresh_token
create_refresh_token(jti, t) ==
    [jti |-> jti, type |-> "refresh",
     exp |-> t + REFRESH_TOKEN_EXPIRE_DAYS * 24 * 60]

\* _create_tokens: an access and a refresh token, each with a jti of its own
\* (uuid4: a jti no token has had)
CreateTokens(tokens, t) ==
    tokens \o <<create_access_token(Len(tokens) + 1, t),
                create_refresh_token(Len(tokens) + 2, t)>>

\* decode_access_token: the payload, or None for a token that has expired
decode_access_token(token, t) == IF token.exp < t THEN None ELSE token

\* is_token_blacklisted
is_token_blacklisted(rows, jti) == \E row \in rows : row.token_jti = jti

\* mutant of blacklist_token: token_jti is not unique
blacklist_token_twice(rows, jti, exp) ==
    [ok |-> TRUE, rows |-> rows \cup {[token_jti |-> jti, expires_at |-> exp]}]

\* blacklist_token: the row is inserted and committed; token_jti is unique,
\* so the commit of a second row of a jti raises IntegrityError
blacklist_token(rows, jti, exp) ==
    IF \E row \in rows : row.token_jti = jti
    THEN [ok |-> FALSE, rows |-> rows]
    ELSE [ok |-> TRUE,
          rows |-> rows \cup {[token_jti |-> jti, expires_at |-> exp]}]

\* mutant of get_current_user: the blacklist is not asked
get_current_user_unchecked(token, rows, t) ==
    LET payload == decode_access_token(token, t)
    IN  IF payload = None THEN 401
        ELSE IF payload.type # "access" THEN 401
        ELSE 200

\* get_current_user: the status of a request that carries the token (200:
\* the user is returned)
get_current_user(token, rows, t) ==
    LET payload == decode_access_token(token, t)
    IN  IF payload = None THEN 401
        ELSE IF payload.type # "access" THEN 401
        ELSE IF is_token_blacklisted(rows, payload.jti) THEN 401
        ELSE 200

\* time passes
ClockTick ==
    /\ clock + ClockMinutes <= MaxClock
    /\ clock' = clock + ClockMinutes
    /\ UNCHANGED <<issued, blacklist, refreshes, granted, auth, loggedOut,
                   notTokenVars>>

\* login with the right password: a pair of tokens is returned
LoginIssues ==
    /\ Len(issued) < 2 * MaxPairs
    /\ issued' = CreateTokens(issued, clock)
    /\ UNCHANGED <<blacklist, clock, refreshes, granted, auth, loggedOut,
                   notTokenVars>>

\* refresh_token_endpoint up to the blacklisting: the token is decoded and
\* looked up in the blacklist, the user is loaded
RefreshChecks(q) ==
    /\ refreshes[q].pc \in {"idle", "done"}
    /\ Len(issued) < 2 * MaxPairs
    /\ \E n \in 1..Len(issued) :
          LET payload == decode_access_token(issued[n], clock)
              rejected ==
                  \/ payload = None
                  \/ payload.type # "refresh"
                  \/ is_token_blacklisted(blacklist, payload.jti)
          IN  refreshes' = [refreshes EXCEPT ![q] =
                  IF rejected
                  THEN [pc |-> "done", jti |-> n, status |-> 401]
                  ELSE [pc |-> "checked", jti |-> n, status |-> 0]]
    /\ UNCHANGED <<issued, blacklist, clock, granted, auth, loggedOut,
                   notTokenVars>>

\* refresh_token_endpoint from the blacklisting on: the old token is
\* blacklisted and new tokens are returned; a commit that fails ends the
\* request with status 500
RefreshBlacklists(q) ==
    /\ refreshes[q].pc = "checked"
    /\ LET old == issued[refreshes[q].jti]
           done == blacklist_token(blacklist, old.jti, old.exp)
       IN  /\ blacklist' = done.rows
           /\ IF done.ok
              THEN /\ issued' = CreateTokens(issued, clock)
                   /\ granted' = granted \cup {[old |-> old.jti, new |-> Len(issued) + 1]}
                   /\ refreshes' = [refreshes EXCEPT ![q].pc = "done",
                                                     ![q].status = 200]
              ELSE /\ refreshes' = [refreshes EXCEPT ![q].pc = "done",
                                                     ![q].status = 500]
                   /\ UNCHANGED <<issued, granted>>
    /\ UNCHANGED <<clock, auth, loggedOut, notTokenVars>>

\* logout: the token of the request is decoded and its jti blacklisted; a
\* token that has expired changes nothing
Logout ==
    /\ \E n \in 1..Len(issued) :
          LET payload == decode_access_token(issued[n], clock)
          IN  IF payload = None
              THEN UNCHANGED <<blacklist, loggedOut>>
              ELSE LET done == blacklist_token(blacklist, payload.jti,
                                               payload.exp)
                   IN  /\ blacklist' = done.rows
                       /\ loggedOut' = IF done.ok
                                       THEN loggedOut \cup {payload.jti}
                                       ELSE loggedOut
    /\ auth' = NoAuth
    /\ UNCHANGED <<issued, clock, refreshes, granted, notTokenVars>>

\* a request that depends on get_current_user arrives with a token
Authenticate ==
    /\ \E n \in 1..Len(issued) :
          auth' = [pc |-> "answered", jti |-> n,
                   status |-> get_current_user(issued[n], blacklist, clock)]
    /\ UNCHANGED <<issued, blacklist, clock, refreshes, granted, loggedOut,
                   notTokenVars>>

InitTokens ==
    /\ InitCore /\ InitApiExcept({"tokens"})
    /\ issued = <<>>
    /\ blacklist = {}
    /\ clock = 0
    /\ refreshes = [q \in Refreshers |-> IdleRefresh]
    /\ granted = {}
    /\ auth = NoAuth
    /\ loggedOut = {}

\* /auth/refresh requests that run at the same time, with logins and logouts,
\* within the life of the tokens
NextRefresh ==
    \/ LoginIssues
    \/ \E q \in Refreshers :
          \/ RefreshChecks(q)
          \/ RefreshBlacklists(q)
    \/ Logout

RefreshSpec == InitTokens /\ [][NextRefresh]_vars

\* requests with an access token, among logins, refreshes and logouts
NextSession ==
    \/ ClockTick
    \/ LoginIssues
    \/ RefreshChecks("q1")
    \/ RefreshBlacklists("q1")
    \/ Logout
    \/ Authenticate

SessionSpec == InitTokens /\ [][NextSession]_vars

----------------------------------------------------------------------------
(* The user-management endpoints: create_user_admin, update_user_admin and  *)
(* delete_user_admin of src/api/admin.py and delete_me of src/api/auth.py.  *)
(* A request first resolves its dependency (get_current_user loads the      *)
(* caller), then its handler awaits the database                            *)

\* UserRole
UserRoles == {"user", "admin", "sysadmin"}

\* the account exists
Exists(u) == users[u] \in UserRoles

\* ensure_sysadmin_exists: the default sysadmin is created when the table
\* has no sysadmin
ensure_sysadmin_exists(table) ==
    IF \E u \in DOMAIN table : table[u] = "sysadmin"
    THEN table
    ELSE [table EXCEPT ![1] = "sysadmin"]

\* update_user with a role: the role of an account that exists is set
update_user(table, user_id, role) ==
    IF table[user_id] \in UserRoles
    THEN [table EXCEPT ![user_id] = role]
    ELSE table

\* delete_user
delete_user(table, user_id) ==
    IF table[user_id] \in UserRoles
    THEN [table EXCEPT ![user_id] = "deleted"]
    ELSE table

\* create_user: the account gets the next id
create_user(table, role) ==
    LET free == {u \in DOMAIN table : table[u] = "absent"}
    IN  IF free = {} THEN table
        ELSE [table EXCEPT ![CHOOSE u \in free : \A v \in free : u <= v] = role]

\* get_current_sysadmin_user: the caller is loaded and is a sysadmin, and
\* the handler has made its checks that need no await (Cannot demote
\* yourself, Cannot delete yourself); the request goes on to the database
AdminAuthorizes(a) ==
    /\ adminRequests[a].pc = "idle"
    /\ \E current \in 1..MaxUsers, target \in 1..MaxUsers,
          op \in {"create", "update", "delete"}, role \in UserRoles :
          /\ users[current] = "sysadmin"
          /\ op = "update" => ~(target = current /\ role # "sysadmin")
          /\ op = "delete" => target # current
          /\ op = "create" => target = current
          /\ op = "delete" => role = "user"
          /\ adminRequests' = [adminRequests EXCEPT ![a] =
                 [pc |-> "authorized", op |-> op, current |-> current,
                  is_sysadmin |-> TRUE, target |-> target, role |-> role]]
    /\ UNCHANGED <<users, notAdminVars>>

\* get_current_user for delete_me: the caller is loaded; a caller who is a
\* sysadmin is refused
DeleteMeAuthorizes(a) ==
    /\ adminRequests[a].pc = "idle"
    /\ \E current \in 1..MaxUsers :
          /\ Exists(current)
          /\ users[current] # "sysadmin"
          /\ adminRequests' = [adminRequests EXCEPT ![a] =
                 [pc |-> "authorized", op |-> "delete_me",
                  current |-> current, is_sysadmin |-> FALSE,
                  target |-> current, role |-> "user"]]
    /\ UNCHANGED <<users, notAdminVars>>

\* the handler reaches the database: create_user, update_user or delete_user
AdminActs(a) ==
    /\ adminRequests[a].pc = "authorized"
    /\ LET req == adminRequests[a]
       IN  users' = CASE req.op = "create" -> create_user(users, req.role)
                      [] req.op = "update" ->
                             update_user(users, req.target, req.role)
                      [] OTHER -> delete_user(users, req.target)
    /\ adminRequests' = [adminRequests EXCEPT ![a] = IdleAdminRequest]
    /\ UNCHANGED notAdminVars

InitAdmin ==
    /\ InitCore /\ InitApiExcept({"admin"})
    /\ users = ensure_sysadmin_exists([u \in 1..MaxUsers |-> "absent"])
    /\ adminRequests = [a \in AdminClients |-> IdleAdminRequest]

NextAdmin ==
    \E a \in AdminClients :
        \/ AdminAuthorizes(a)
        \/ DeleteMeAuthorizes(a)
        \/ AdminActs(a)

AdminSpec == InitAdmin /\ [][NextAdmin]_vars

----------------------------------------------------------------------------
(* The conversations of src/services/database.py and the handlers of        *)
(* ChatPage (src/ui/pages/chat_page.py) that list, select, create, rename   *)
(* and delete them and send messages                                        *)

\* the accounts that log in: 1 is the sysadmin, the others are users
Accounts == {1, 2, 3}

\* the role /auth/me reports for the account
AccountRole(u) == IF u = 1 THEN "sysadmin" ELSE "user"

\* get_conversations: the ids of the conversations, of one user when a
\* user_id is given
get_conversations(table, user_id) ==
    {c \in DOMAIN table :
        /\ table[c].state = "stored"
        /\ user_id # None => table[c].user_id = user_id}

\* get_conversation: the conversation of the id is found, for the user when
\* a user_id is given
get_conversation(table, conv_id, user_id) ==
    /\ table[conv_id].state = "stored"
    /\ user_id # None => table[conv_id].user_id = user_id

\* delete_conversation: what it returns and the table it leaves
delete_conversation(table, conv_id, user_id) ==
    IF get_conversation(table, conv_id, user_id)
    THEN [ok |-> TRUE, table |-> [table EXCEPT ![conv_id].state = "deleted"]]
    ELSE [ok |-> FALSE, table |-> table]

\* update_conversation_title
update_conversation_title(table, conv_id, title, user_id) ==
    IF get_conversation(table, conv_id, user_id)
    THEN [ok |-> TRUE, table |-> [table EXCEPT ![conv_id].title = title]]
    ELSE [ok |-> FALSE, table |-> table]

\* add_message: a message of the conversation is stored (the commit fails
\* for a conversation that does not exist)
add_message(table, conv_id) ==
    IF table[conv_id].state = "stored"
    THEN [table EXCEPT ![conv_id].messages = @ + 1]
    ELSE table

\* the id the next conversation gets, 0 when the table is full
NextConversation(table) ==
    LET free == {c \in DOMAIN table : table[c].state = "absent"}
    IN  IF free = {} THEN 0 ELSE CHOOSE c \in free : \A d \in free : c <= d

\* create_conversation
create_conversation(table, user_id) ==
    [table EXCEPT ![NextConversation(table)] =
        [state |-> "stored", user_id |-> user_id,
         title |-> "Nuova conversazione", messages |-> 0]]

\* ChatPage._load_conversations: all conversations for a sysadmin, else
\* those of the page's user_id
LoadConversations(pg, table) ==
    IF pg.role = "sysadmin"
    THEN get_conversations(table, None)
    ELSE get_conversations(table, pg.user_id)

\* uid = None if self.role == "sysadmin" else self.user_id
Uid(pg) == IF pg.role = "sysadmin" THEN None ELSE pg.user_id

\* the conversations the page may select by itself: conversations[0]
FirstListed(listed) == IF listed = {} THEN {0} ELSE listed

\* the login page stores the token and, when /auth/me answers 200, the role
\* and the user_id; the index page builds ChatPage from the storage and
\* renders it
OpenChatPage ==
    /\ \E who \in Accounts, me_ok \in BOOLEAN :
          LET pg == [who |-> who,
                     user_id |-> IF me_ok THEN Number(who) ELSE None,
                     role |-> IF me_ok THEN AccountRole(who) ELSE "user",
                     listed |-> {}, selected_conv_id |-> 0]
              listed == LoadConversations(pg, conversations)
          IN  \E first \in FirstListed(listed) :
                  chatPage' = [pg EXCEPT !.listed = listed,
                                         !.selected_conv_id = first]
    /\ UNCHANGED <<conversations, notOwnerVars>>

\* ChatPage._on_new_conversation
OnNewConversation ==
    /\ chatPage.who # 0
    /\ NextConversation(conversations) # 0
    /\ conversations' = create_conversation(conversations, chatPage.user_id)
    /\ chatPage' = [chatPage EXCEPT
           !.selected_conv_id = NextConversation(conversations),
           !.listed = LoadConversations(chatPage, conversations')]
    /\ UNCHANGED notOwnerVars

\* ChatPage._on_conversation_select, for a conversation of the sidebar
OnConversationSelect ==
    /\ \E c \in chatPage.listed :
          chatPage' = [chatPage EXCEPT !.selected_conv_id = c]
    /\ UNCHANGED <<conversations, notOwnerVars>>

\* ChatPage._on_send_message: the message is stored in the selected
\* conversation and a first message gives the conversation its title
OnSendMessage ==
    /\ chatPage.selected_conv_id # 0
    /\ conversations[chatPage.selected_conv_id].messages < MaxStoredMessages
    /\ LET conv == chatPage.selected_conv_id
           added == add_message(conversations, conv)
       IN  IF added[conv].messages = 1
           THEN /\ conversations' =
                       update_conversation_title(added, conv, "topic",
                                                 None).table
                /\ chatPage' = [chatPage EXCEPT !.listed =
                       LoadConversations(chatPage, conversations')]
           ELSE /\ conversations' = added
                /\ UNCHANGED chatPage
    /\ UNCHANGED notOwnerVars

\* ChatPage._on_rename_conversation, for a conversation of the sidebar
OnRenameConversation ==
    /\ \E c \in chatPage.listed :
          conversations' =
              update_conversation_title(conversations, c, "renamed",
                                        Uid(chatPage)).table
    /\ chatPage' = [chatPage EXCEPT !.listed =
           LoadConversations(chatPage, conversations')]
    /\ UNCHANGED notOwnerVars

\* ChatPage._on_delete_conversation, for a conversation of the sidebar
OnDeleteConversation ==
    /\ \E c \in chatPage.listed :
          /\ conversations' =
                 delete_conversation(conversations, c, Uid(chatPage)).table
          /\ LET listed == LoadConversations(chatPage, conversations')
             IN  IF chatPage.selected_conv_id = c
                 THEN \E first \in FirstListed(listed) :
                          chatPage' = [chatPage EXCEPT
                              !.listed = listed, !.selected_conv_id = first]
                 ELSE chatPage' = [chatPage EXCEPT !.listed = listed]
    /\ UNCHANGED notOwnerVars

InitOwner ==
    /\ InitCore /\ InitApiExcept({"chatdb"})
    /\ conversations = NoConversations
    /\ chatPage = NoChatPage

NextOwner ==
    \/ OpenChatPage
    \/ OnNewConversation
    \/ OnConversationSelect
    \/ OnSendMessage
    \/ OnRenameConversation
    \/ OnDeleteConversation

OwnerSpec == InitOwner /\ [][NextOwner]_vars

----------------------------------------------------------------------------
(* Properties *)

Last(s) == s[Len(s)]

IsPrefix(a, b) == Len(a) <= Len(b) /\ \A i \in 1..Len(a) : a[i] = b[i]

\* number of occurrences of st among the first n entries of tr
RECURSIVE Occurrences(_, _, _)
Occurrences(tr, n, st) ==
    IF n = 0 THEN 0
    ELSE (IF tr[n] = st THEN 1 ELSE 0) + Occurrences(tr, n - 1, st)

\* C1: once the model has returned an assistant message without tool calls,
\* that response is the last one of the run: the model is not called again,
\* no executor ends for a later round, nothing is outstanding, the run is in
\* MODEL_RESPONDED or DONE, and in DONE get_agent_graph_response has returned
\* exactly that message; DONE is reached in no other way.
C1_FinalAnswerEndsRun ==
    /\ \A k \in 1..Len(responses) :
          responses[k].tool_calls = <<>> =>
              /\ k = Len(responses)
              /\ Len(contexts) = k
              /\ pc \in {"MODEL_RESPONDED", "DONE"}
              /\ pending = {}
              /\ \A e \in execLog : e.round < k
              /\ pc = "DONE" => returned = responses[k]
    /\ pc = "DONE" => responses # <<>> /\ Last(responses).tool_calls = <<>>
    /\ pc # "DONE" => returned = NoMessage

\* a run that executed tools, then got a final answer and returned it
C1_Witness ==
    /\ pc = "DONE"
    /\ Len(responses) = 2
    /\ execLog # {}
    /\ returned = responses[2]
    /\ returned.tool_calls = <<>>

\* C2: the run starts in AWAITING_MODEL; the only transitions are
\* AWAITING_MODEL -> MODEL_RESPONDED | FAILED, MODEL_RESPONDED ->
\* EXECUTING_TOOLS | DONE | FAILED and EXECUTING_TOOLS -> AWAITING_MODEL;
\* EXECUTING_TOOLS is entered only from a MODEL_RESPONDED whose response has
\* at least one tool call; and a run whose model asks for one tool call and
\* then answers goes through exactly the six states of the scenario.
C2_LoopTransitions ==
    /\ trace # <<>> => trace[1] = "AWAITING_MODEL"
    /\ trace # <<>> => Last(trace) = pc
    /\ \A i \in 1..(Len(trace) - 1) :
          /\ trace[i] = "AWAITING_MODEL" => trace[i + 1] \in {"MODEL_RESPONDED", "FAILED"}
          /\ trace[i] = "MODEL_RESPONDED" =>
                trace[i + 1] \in {"EXECUTING_TOOLS", "DONE", "FAILED"}
          /\ trace[i] = "EXECUTING_TOOLS" => trace[i + 1] = "AWAITING_MODEL"
          /\ trace[i] \notin {"DONE", "FAILED"}
          /\ trace[i + 1] = "EXECUTING_TOOLS" =>
                /\ trace[i] = "MODEL_RESPONDED"
                /\ responses[Occurrences(trace, i, "MODEL_RESPONDED")].tool_calls # <<>>
    /\ ( /\ pc = "DONE"
         /\ Len(responses) = 2
         /\ Len(responses[1].tool_calls) = 1 )
       => trace = <<"AWAITING_MODEL", "MODEL_RESPONDED", "EXECUTING_TOOLS",
                    "AWAITING_MODEL", "MODEL_RESPONDED", "DONE">>

\* the scenario run: one tool call, then the final answer
C2_Witness ==
    /\ pc = "DONE"
    /\ Len(responses) = 2
    /\ Len(responses[1].tool_calls) = 1
    /\ responses[1].tool_calls[1].name = "stock_scoring_tool"
    /\ Len(trace) = 6

\* C3: at every model call after the first, the context is the previous
\* context, the assistant message that was returned for it, and exactly one
\* tool message per tool call of that message, in the order of the calls and
\* carrying their call ids; outside EXECUTING_TOOLS no call is outstanding.
C3_OrderedToolResults ==
    /\ pc # "EXECUTING_TOOLS" => pending = {}
    /\ \A k \in 2..Len(contexts) :
          LET c == contexts[k]
              base == Len(contexts[k - 1]) + 1
              req == responses[k - 1]
              N == Len(req.tool_calls)
          IN  /\ Len(c) = base + N
              /\ c[base] = req
              /\ \A i \in 1..N :
                    /\ c[base + i].role = "tool"
                    /\ c[base + i].tool_call_id = req.tool_calls[i].id

\* a batch of two whose second call completed first has been appended in the
\* order of the calls, and the run is at the model call that gets it as context
C3_Witness ==
    /\ pc = "AWAITING_MODEL"
    /\ Len(contexts) = 1
    /\ finished = <<2, 1>>
    /\ Len(responses[1].tool_calls) = 2
    /\ Len(messages) = Len(contexts[1]) + 3
    /\ messages[Len(messages) - 1].tool_call_id = responses[1].tool_calls[1].id
    /\ messages[Len(messages)].tool_call_id = responses[1].tool_calls[2].id

\* C4: in every state of a run the executor of web_search_tool
\* has been invoked at most WebSearchMaxCalls times, and at most that many of
\* its invocations have ended.
C4_WebSearchCeiling ==
    /\ execCount["web_search_tool"] <= WebSearchMaxCalls
    /\ Cardinality({e \in execLog : e.name = "web_search_tool"})
          <= WebSearchMaxCalls

C6_ModelFailureEndsRun ==
    /\ Len(contexts) > Len(responses) =>
          /\ Len(contexts) = Len(responses) + 1
          /\ pc = "FAILED"
          /\ Last(trace) = "FAILED"
          /\ failure = "ModelCallError"
          /\ returned = NoMessage
          /\ messages = Last(contexts)
          /\ pending = {}
          /\ outputs = <<>>
          /\ \A e \in execLog : e.round <= Len(responses)
    /\ failure = "ModelCallError" => Len(contexts) > Len(responses)

\* the second model call of a run raised, after a round of tools
C6_Witness ==
    /\ failure = "ModelCallError"
    /\ Len(contexts) = 2
    /\ execLog # {}
    /\ Last(messages).role = "tool"

\* C7: every executor invocation ends by returning; when the body of the
\* executor failed, the tool message of that call carries the failure payload
\* of the tool once the batch is appended, and the run is then at or past the
\* next AWAITING_MODEL; FAILED is never entered from EXECUTING_TOOLS and
\* only with a model-call or recursion-limit reason.
C7_ToolFailuresAreData ==
    /\ \A e \in execLog :
          /\ e.kind = "returned"
          /\ ( /\ e.outcome = "error"
               /\ (e.round < Len(responses) \/ pc # "EXECUTING_TOOLS") )
             => /\ \E i \in 1..Len(messages) :
                      /\ messages[i].role = "tool"
                      /\ messages[i].tool_call_id = e.call_id
                      /\ messages[i].content = FailurePayload(e.name)
                /\ (e.round < Len(contexts) \/ pc = "AWAITING_MODEL")
    /\ pc = "FAILED" =>
          /\ failure \in {"ModelCallError", "GraphRecursionError"}
          /\ trace[Len(trace) - 1] # "EXECUTING_TOOLS"

\* two tools failed in one batch and the model was called again with their
\* failure payloads in the context
C7_Witness ==
    /\ Len(contexts) = 2
    /\ Cardinality(execLog) = 2
    /\ \A e \in execLog : e.outcome = "error"
    /\ {e.name : e \in execLog} = {"stock_scoring_tool", "web_search_tool"}
    /\ \E i \in 1..Len(contexts[2]) :
          contexts[2][i].content = FailurePayload("stock_scoring_tool")
    /\ \E i \in 1..Len(contexts[2]) :
          contexts[2][i].content = FailurePayload("web_search_tool")
    /\ pc = "MODEL_RESPONDED"

C10_SystemPromptFirstOnce ==
    \A k \in 1..Len(contexts) :
        LET c == contexts[k]
        IN  /\ c[1].role = "system"
            /\ c[1].content = SYSTEM_PROMPT
            /\ Cardinality({i \in 1..Len(c) : c[i].role = "system"}) = 1

\* a model call of a run whose history held an entry of role system
C10_Witness ==
    /\ Len(contexts) = 2
    /\ \E h \in 1..Len(history) : history[h].role = "system"
    /\ contexts[2][1].content = SYSTEM_PROMPT

\* the tool calls (position of the assistant message, position in its
\* tool_calls) before position i of msgs that carry the call id cid
CallsBefore(msgs, i, cid) ==
    {jk \in (1..(i - 1)) \X (1..(MaxToolCalls + 1)) :
        /\ msgs[jk[1]].role = "ai"
        /\ jk[2] <= Len(msgs[jk[1]].tool_calls)
        /\ msgs[jk[1]].tool_calls[jk[2]].id = cid}

\* C11: in the conversation, every tool message answers exactly one tool
\* call of an earlier assistant message (same call id), and no two tool
\* messages carry the same call id; assistant entries of the history with
\* tool_calls included.
C11_ToolResultsMatchCalls ==
    \A i \in 1..Len(messages) :
        messages[i].role = "tool" =>
            /\ Cardinality(CallsBefore(messages, i, messages[i].tool_call_id)) = 1
            /\ \A j \in 1..Len(messages) :
                  (messages[j].role = "tool" /\ j # i)
                      => messages[j].tool_call_id # messages[i].tool_call_id

\* the history held an assistant turn with a tool call, and the run has
\* appended the results of a batch of two calls
C11_Witness ==
    /\ \E h \in 1..Len(history) : history[h].tool_calls # <<>>
    /\ messages[2].role = "ai" /\ messages[2].tool_calls # <<>>
    /\ Len(contexts) = 2
    /\ Len(responses[1].tool_calls) = 2
    /\ Last(messages).role = "tool"

C13_ToolStepEnds == (pc = "EXECUTING_TOOLS") ~> (pc # "EXECUTING_TOOLS")

C15_FailuresAreReported ==
    /\ (pc = "FAILED" /\ ~PageWaits) =>
          /\ Last(page.shown).kind = "error"
          /\ Last(page.shown).content = <<"Si e verificato un errore critico nel grafo: ", failure>>
          /\ failure # ""
          /\ Last(page.session).role = "assistant"
          /\ Last(page.session).content = Last(page.shown).content
    /\ pc = "FAILED" =>
          /\ \A i \in 1..Len(page.shown) : page.shown[i].content # <<>>
          /\ \A i \in 1..Len(page.session) : page.session[i].content # <<>>
    /\ chat.shown # <<>> =>
          /\ Last(chat.shown).role = "assistant"
          /\ Last(chat.shown).content = <<"Errore: ", "TypeError">>
          /\ chat.notified = <<Last(chat.shown).content>>
          /\ \A i \in 1..Len(chat.db) : chat.db[i].role = "user"

\* the run failed at the recursion limit and the page has reported it; the
\* chat page has reported its failed call
C15_Witness ==
    /\ pc = "FAILED"
    /\ failure = "GraphRecursionError"
    /\ Len(page.session) = 2
    /\ Last(page.shown).kind = "error"
    /\ Len(chat.shown) = 2

\* the raw metric that the score of key k is computed from
RawMetric(i, k) ==
    CASE k = "pe" -> i.trailingPE
      [] k = "roe" -> i.returnOnEquity
      [] k = "de" -> i.debtToEquity
      [] k = "beta" -> i.beta
      [] k = "dividend" -> i.dividendYield
      [] k = "growth" -> i.revenueGrowth
      [] k = "evebitda" -> i.enterpriseToEbitda

RECURSIVE WeightedHundredths(_, _)
\* the sum of score times weight over the first n keys, in hundredths
WeightedHundredths(scores, n) ==
    IF n = 0 THEN 0
    ELSE scores[Keys[n]] * WeightHundredths[Keys[n]]
         + WeightedHundredths(scores, n - 1)

\* C16: a missing metric has sub-score 0, and the reported total is the sum
\* of sub-score times weight over all seven metrics, whichever metrics are
\* missing; with all seven missing the sub-scores are 0, the total is 0.0
\* and the decision is SELL.
C16_MissingScoresZero ==
    result # NoResult =>
        /\ \A k \in 1..Len(Keys) :
              RawMetric(info, Keys[k]) = None => result.scores[Keys[k]] = 0
        /\ result.total_score = WeightedHundredths(result.scores, Len(Keys))
        /\ info = NoInfo =>
              /\ \A k \in 1..Len(Keys) : result.scores[Keys[k]] = 0
              /\ result.total = IntFloat(0)
              /\ result.total_score = 0
              /\ result.decision = "SELL"

\* P/E and beta are missing, the other five metrics score 10: the total is
\* 7.5 and not 10
C16_Witness ==
    /\ result # NoResult
    /\ info.trailingPE = None /\ info.beta = None
    /\ \A k \in {"roe", "de", "dividend", "growth", "evebitda"} :
          result.scores[k] = 10
    /\ result.total_score = 750

\* the metrics of the round-trip example
ExampleInfo ==
    [trailingPE |-> Number(12000), returnOnEquity |-> Number(25000),
     debtToEquity |-> Number(500), beta |-> Number(1000),
     dividendYield |-> Number(40), revenueGrowth |-> Number(150),
     enterpriseToEbitda |-> Number(7000)]

\* C17: for the metrics of the example every sub-score is 10, the total is
\* 10.0 and the decision is BUY; for all metrics every sub-score is in
\* 0..10, the weights sum to 1.0 and the total is in 0..10.
C17_RoundTrip ==
    /\ WeightedHundredths([k \in DOMAIN WeightHundredths |-> 1], Len(Keys)) = 100
    /\ result # NoResult =>
          /\ \A k \in 1..Len(Keys) : result.scores[Keys[k]] \in 0..10
          /\ ~result.total.neg
          /\ FloatGeq(IntFloat(10), result.total)
          /\ result.total_score \in 0..1000
          /\ info = ExampleInfo =>
                /\ FloatSum([k \in 1..Len(Keys) |-> WEIGHTS[Keys[k]]], build)
                     = IntFloat(1)
                /\ \A k \in 1..Len(Keys) : result.scores[Keys[k]] = 10
                /\ result.total = IntFloat(10)
                /\ result.total_score = 1000
                /\ result.decision = "BUY"

C17_Witness ==
    /\ info = ExampleInfo
    /\ result # NoResult
    /\ result.decision = "BUY"
    /\ result.total_score = 1000

\* C18: the decision is BUY exactly when the reported total_score is at
\* least 7.5, HOLD exactly when it is at least 6.0 and below 7.5, and SELL
\* otherwise.
C18_DecisionMatchesTotal ==
    result # NoResult =>
        result.decision = IF result.total_score >= 750 THEN "BUY"
                          ELSE IF result.total_score >= 600 THEN "HOLD"
                          ELSE "SELL"

\* C19: a read of the knowledge base never returns the empty string.
C19_ReadNeverEmpty ==
    \A i \in 1..Len(kbLog) :
        kbLog[i].tool = "read_from_kb_tool" => kbLog[i].returned # Text("")

\* the step is a call of write_to_kb_tool
IsWrite ==
    /\ Len(kbLog') = Len(kbLog) + 1
    /\ Last(kbLog').tool = "write_to_kb_tool"

C21_EmptyTextRejected ==
    \A i \in 1..Len(handled) :
        LET call == handled[i].call
        IN  (/\ call.name \in {"web_search_tool", "write_to_kb_tool"}
             /\ call.value.type = "str"
             /\ call.value.text = "")
            => ~handled[i].executed /\ handled[i].status = "error"

\* C22: /health/ready answers 200 and "ready" when the database check is not
\* unhealthy and 503 and "not ready" when it is, whatever Ollama and Qdrant
\* do.
C22_ReadinessFollowsDatabase ==
    \A i \in 1..Len(probes) :
        probes[i].path = "/health/ready" =>
            IF probes[i].seen.database = "ok"
            THEN probes[i].status_code = 200 /\ probes[i].status = "ready"
            ELSE probes[i].status_code = 503 /\ probes[i].status = "not ready"

\* Ollama and Qdrant time out and the database answers: /health answers 503
\* and /health/ready answers 200
C22_Witness ==
    /\ services = [database |-> "ok", ollama |-> "timeout", qdrant |-> "timeout"]
    /\ Len(probes) = 2
    /\ probes[1].path = "/health" /\ probes[1].status_code = 503
    /\ probes[2].path = "/health/ready" /\ probes[2].status_code = 200
    /\ probes[2].status = "ready"

\* the code the tests expect of each class
ExpectedCode(cls) ==
    CASE cls = "AppError" -> "APP_ERROR"
      [] cls = "DatabaseError" -> "DATABASE_ERROR"
      [] cls = "LLMError" -> "LLM_ERROR"
      [] cls = "VectorStoreError" -> "VECTOR_STORE_ERROR"
      [] cls = "ToolError" -> "TOOL_ERROR"
      [] cls = "ValidationError" -> "VALIDATION_ERROR"
      [] cls = "NotFoundError" -> "NOT_FOUND"
      [] cls = "ExternalServiceError" -> "EXTERNAL_SERVICE_ERROR"

\* C23: every error class is built from a message alone and then has the
\* code of its class, whatever the message; a code or details passed by the
\* caller is kept as it is.
C23_ErrorCodes ==
    built # NoError =>
        /\ request.keywords = {} =>
              /\ built.raised = ""
              /\ built.message = request.arg
              /\ built.code = ExpectedCode(request.cls)
        /\ built.raised = "" =>
              /\ "code" \in request.keywords => built.code = CUSTOM_CODE
              /\ "details" \in request.keywords => built.details = CustomDetails

\* the positions of the entries with role user or assistant
KeptEntries(st) == {i \in 1..Len(st) : st[i].role \in {"user", "assistant"}}

\* C24: the entries with role user or assistant give one message each, in
\* the order of the history and with the content of the entry; entries of
\* other roles give none, so the output is never longer than the input and
\* holds no system and no tool message.
C24_FormatKeepsOrder ==
    formatted # NotFormatted =>
        /\ Len(formatted) = Cardinality(KeptEntries(stMessages))
        /\ Len(formatted) <= Len(stMessages)
        /\ \A k \in 1..Len(formatted) : formatted[k].role \in {"human", "ai"}
        /\ \A p \in KeptEntries(stMessages) :
              LET k == Cardinality({q \in KeptEntries(stMessages) : q <= p})
              IN  /\ formatted[k].content = stMessages[p].content
                  /\ formatted[k].role =
                        IF stMessages[p].role = "user" THEN "human" ELSE "ai"

\* a history of a user entry, a tool entry and an assistant entry with other
\* contents gives two messages
C24_Witness ==
    /\ Len(stMessages) = 3
    /\ stMessages[1].role = "user" /\ stMessages[1].content = "second text"
    /\ stMessages[2].role = "tool"
    /\ stMessages[3].role = "assistant" /\ stMessages[3].content = "first text"
    /\ Len(formatted) = 2
    /\ formatted[1].content = "second text"
    /\ formatted[2].content = "first text"

\* the messages get_agent_graph_response puts into the run for its arguments
RequestedContext(user_query, chat_history) ==
    <<SystemMessage(SYSTEM_PROMPT)>>
        \o format_st_history_to_langchain(
               [i \in 1..Len(chat_history) |->
                   [role |-> chat_history[i].role,
                    content |-> chat_history[i].content, tool_calls |-> <<>>]])
        \o <<HumanMessage(user_query)>>

\* the history read by a send holds every message stored before the send
\* and not the message of the send
HistoryFitsSend(send) ==
    LET context == RequestedContext(send.message, send.history)
    IN  /\ Cardinality({i \in 1..Len(context) :
                            context[i].content = send.message}) = 1
        /\ Last(context).content = send.message
        /\ \A j \in 1..Len(send.before) :
              \E i \in 1..Len(context) :
                  context[i].content = send.before[j].content

\* C25: every message sent on the chat page gives a run of the agent whose
\* context holds the message once, as its last message, and every message
\* stored earlier in the conversation, also when two sends interleave.
C25_SendContext ==
    \A s \in Senders :
        sends[s].pc \in {"read", "done"} =>
            /\ sends[s].pc = "done" => sends[s].outcome = "run"
            /\ HistoryFitsSend(sends[s])

\* the step is the return of an authenticate_user call
LoginReturns(r) == logins[r].pc # "returned" /\ logins'[r].pc = "returned"

\* C26: failed_login_attempts is at most MAX_LOGIN_ATTEMPTS and the account
\* is locked once the count reaches it; while the lock has not expired a
\* call returns no user and leaves the count and the lock as they are; a
\* successful login sets the count to 0 and clears the lock; also when
\* logins of the user interleave.
C26_LoginLockout ==
    [][/\ account'.failed_login_attempts <= MAX_LOGIN_ATTEMPTS
       /\ account'.failed_login_attempts >= MAX_LOGIN_ATTEMPTS
             => account'.locked_until # None
       /\ \A r \in LoginRequests :
             LoginReturns(r) =>
                 /\ IsLocked(account, now) =>
                       logins'[r].returned = "None" /\ account' = account
                 /\ logins'[r].returned = "user" => account' = NewAccount]_vars

\* C27: a refresh token is single-use: no two /auth/refresh requests with
\* the same token return new tokens, whether one follows the other or both
\* run at the same time.
C27_RefreshSingleUse ==
    \A first, second \in granted : first.old = second.old => first = second

\* two refreshes with the same token ran at the same time: both found it
\* not blacklisted, one returned tokens and the commit of the other failed
C27_Witness ==
    /\ refreshes["q1"].pc = "done" /\ refreshes["q2"].pc = "done"
    /\ refreshes["q1"].jti = refreshes["q2"].jti
    /\ {refreshes["q1"].status, refreshes["q2"].status} = {200, 500}

\* C28: once a logout has blacklisted an access token, get_current_user
\* answers every later request with that token with 401, whatever logins,
\* refreshes and logouts happen in between.
C28_LoggedOutRejected ==
    auth.pc = "answered" /\ auth.jti \in loggedOut => auth.status = 401

\* an access token that has not expired is refused after its logout, with
\* a second pair of tokens created by a login or a refresh
C28_Witness ==
    /\ auth.pc = "answered"
    /\ auth.jti \in loggedOut
    /\ issued[auth.jti].type = "access"
    /\ clock <= issued[auth.jti].exp
    /\ Len(issued) > 2
    /\ auth.status = 401

\* C29: through the user-management endpoints at least one account with
\* role sysadmin exists in every reachable state, also when requests of two
\* sysadmins interleave.
C29_SysadminExists == \E u \in 1..MaxUsers : users[u] = "sysadmin"

\* the conversation is stored and belongs to a user other than who
OwnedByOther(table, c, who) ==
    /\ table[c].state = "stored"
    /\ table[c].user_id # None
    /\ table[c].user_id # Number(who)

\* C30: for a user who is not a sysadmin the chat page never lists or
\* selects a conversation owned by another user and its operations leave
\* the conversations of other users unchanged; delete_conversation and
\* update_conversation_title called with a user_id return false for the
\* conversations of other users and leave them unchanged.
C30_ConversationOwnership ==
    [][/\ chatPage'.who # 0 /\ AccountRole(chatPage'.who) # "sysadmin" =>
             /\ \A c \in chatPage'.listed \cup
                          ({chatPage'.selected_conv_id} \ {0}) :
                    ~OwnedByOther(conversations', c, chatPage'.who)
             /\ \A c \in DOMAIN conversations :
                    OwnedByOther(conversations, c, chatPage'.who) =>
                        conversations'[c] = conversations[c]
       /\ \A c \in DOMAIN conversations, u \in Accounts :
             OwnedByOther(conversations, c, u) =>
                 /\ delete_conversation(conversations, c, Number(u)) =
                        [ok |-> FALSE, table |-> conversations]
                 /\ update_conversation_title(conversations, c, "renamed",
                                              Number(u)) =
                        [ok |-> FALSE, table |-> conversations]]_vars
====
